---- MODULE Spec2Model ----
(***************************************************************************)
(* Token-budgeted conversation service: model registry, token estimator,   *)
(* message cleaner (filter + trim), context-window manager, the            *)
(* per-message orchestrator (ThreadService.process_user_message) with      *)
(* threshold summarization, and the four-stage agent workflow.             *)
(*                                                                         *)
(* A text is modelled by its number of whitespace-separated words          *)
(* (0 is the empty string): every estimate in the program depends on a     *)
(* text only through len(text.split()).                                    *)
(***************************************************************************)
EXTENDS Integers, Sequences, FiniteSets, TLC

VARIABLES
    \* ---- MessageCleaner called on its own (the trim specification) ----
    cleaner_in,       \* arguments of one trim_messages_to_context call
    cleaner_out,      \* its return value, or None before the call
    \* ---- one call of another operation taken on its own ----
    call,             \* the operation and its arguments, or None
    ret,              \* what it returned or raised, or None before the call
    manager,          \* a ContextWindowManager object on its own, or None
    \* ---- storage (one thread) ----
    system_prompt,    \* Thread.system_prompt
    messages,         \* rows of the messages table, in timestamp order
    summaries,        \* rows of the summaries table, in insertion order
    now,              \* datetime.utcnow(), strictly increasing
    \* ---- one ThreadService per worker process ----
    pc,               \* position of the worker inside process_user_message
    req,              \* the locals of the call the worker is running / ran last
    result,           \* what the last call returned or raised
    context_manager,  \* LLMService.context_manager of the worker
    calls_left,       \* process_user_message calls that may still start
    \* ---- AgentWorkflowEngine ----
    wf_pc,            \* position inside execute_workflow
    wf_state,         \* the MultiAgentWorkflowState being built
    wf_error,         \* the exception execute_workflow raised, or "none"
    wf_manager,       \* context_manager of the engine's LLMService
    wf_runs,          \* number of execute_workflow calls started
    wf_posted         \* the requests the engine posted to the completion
                      \* collaborator since execute_workflow was entered

vars == <<cleaner_in, cleaner_out, call, ret, manager, system_prompt, messages, summaries, now,
          pc, req, result, context_manager, calls_left,
          wf_pc, wf_state, wf_error, wf_manager, wf_runs, wf_posted>>

cleanerVars == <<cleaner_in, cleaner_out>>
callVars == <<call, ret, manager>>
threadVars == <<system_prompt, messages, summaries, now, pc, req, result,
                context_manager, calls_left>>
workflowVars == <<wf_pc, wf_state, wf_error, wf_manager, wf_runs, wf_posted>>

Max(a, b) == IF a >= b THEN a ELSE b

RECURSIVE SumSeq(_)
SumSeq(s) == IF s = <<>> THEN 0 ELSE Head(s) + SumSeq(Tail(s))

(***************************************************************************)
(* ModelRegistry (app/core/models.py)                                      *)
(***************************************************************************)
ModelName ==
    {"openai/gpt-4", "openai/gpt-4-turbo-preview", "openai/gpt-3.5-turbo",
     "mistralai/mistral-7b-instruct", "anthropic/claude-3-haiku",
     "upstage/solar-pro-3:free"}

MODEL_CONFIGS ==
    [m \in ModelName |->
        CASE m = "openai/gpt-4" ->
               [provider |-> "openai", max_tokens |-> 8192,
                context_window |-> 8192, preferred_summary_size |-> "large"]
          [] m = "upstage/solar-pro-3:free" ->
               [provider |-> "upstage", max_tokens |-> 8192,
                context_window |-> 8192, preferred_summary_size |-> "large"]
          [] m = "openai/gpt-4-turbo-preview" ->
               [provider |-> "openai", max_tokens |-> 4096,
                context_window |-> 128000, preferred_summary_size |-> "large"]
          [] m = "openai/gpt-3.5-turbo" ->
               [provider |-> "openai", max_tokens |-> 4096,
                context_window |-> 4096, preferred_summary_size |-> "medium"]
          [] m = "mistralai/mistral-7b-instruct" ->
               [provider |-> "mistralai", max_tokens |-> 1500,
                context_window |-> 32000, preferred_summary_size |-> "medium"]
          [] m = "anthropic/claude-3-haiku" ->
               [provider |-> "anthropic", max_tokens |-> 1024,
                context_window |-> 200000, preferred_summary_size |-> "small"]]

\* get_model_config: the registry entry; an unknown identifier raises ValueError.
IsRegistered(model) == model \in ModelName

get_model_config(model) == MODEL_CONFIGS[model]

get_summary_size_for_model(model) == get_model_config(model).preferred_summary_size

(***************************************************************************)
(* TokenEstimator (app/utils/token_counter.py, class TokenCounter)         *)
(***************************************************************************)
\* TOKENS_PER_WORD in tenths of a token: 1.3 for every listed provider and
\* 1.3 as the default of .get(provider, 1.3).
TOKENS_PER_WORD_X10(provider) ==
    CASE provider = "google" -> 13
      [] provider = "openai" -> 13
      [] provider = "mistralai" -> 13
      [] provider = "anthropic" -> 13
      [] OTHER -> 13

SYSTEM_OVERHEAD == 50
MESSAGE_OVERHEAD == 10

\* int(word_count * tokens_per_word): the floor of a non-negative product.
WordTokens(words, model) ==
    (words * TOKENS_PER_WORD_X10(get_model_config(model).provider)) \div 10

\* TokenCounter.count_tokens
count_tokens(text, model) ==
    IF text = 0 THEN 0 ELSE Max(WordTokens(text, model), 1)

\* TokenCounter.count_messages_tokens
count_messages_tokens(msgs, model, sys_prompt) ==
    SYSTEM_OVERHEAD
    + (IF sys_prompt # 0 THEN WordTokens(sys_prompt, model) ELSE 0)
    + SumSeq([i \in 1..Len(msgs) |->
                WordTokens(msgs[i].content, model) + MESSAGE_OVERHEAD])

\* TokenCounter.validate_context (the fields the callers read)
validate_context(model, used_tokens, buffer) ==
    LET remaining == get_model_config(model).context_window - used_tokens
    IN  [is_valid |-> remaining > buffer,
         remaining |-> Max(remaining, 0),
         safety_exceeded |-> remaining <= buffer]

VALIDATE_DEFAULT_BUFFER == 100

(***************************************************************************)
(* MessageCleaner (app/services/llm_service.py)                            *)
(***************************************************************************)
FILTER_MODEL == "openai/gpt-3.5-turbo"

\* LLMService.filter_messages_by_length with max_char_length = None
filter_messages_by_length(msgs, max_message_length) ==
    LET keep(m) == count_tokens(m.content, FILTER_MODEL) <= max_message_length
        filtered == SelectSeq(msgs, keep)
    IN  [messages |-> filtered,
         deleted_count |-> Len(msgs) - Len(filtered),
         remaining_count |-> Len(filtered)]

\* The loop with the fit test made on the message alone, the running total
\* forgotten.
RECURSIVE TrimLoopSingleFit(_, _, _, _, _)
TrimLoopSingleFit(msgs, model, available_tokens, i, acc) ==
    IF i = 0 THEN acc
    ELSE LET msg_tokens == count_tokens(msgs[i].content, model)
         IN  IF msg_tokens <= available_tokens
             THEN TrimLoopSingleFit(msgs, model, available_tokens, i - 1,
                                    [acc EXCEPT !.trimmed = <<msgs[i]>> \o @,
                                                !.total_tokens = @ + msg_tokens])
             ELSE TrimLoopSingleFit(msgs, model, available_tokens, i - 1,
                                    [acc EXCEPT !.removed_count = @ + 1])

\* a loop that appends each kept message instead of inserting it in front
RECURSIVE TrimLoopAppend(_, _, _, _, _)
TrimLoopAppend(msgs, model, available_tokens, i, acc) ==
    IF i = 0 THEN acc
    ELSE LET msg_tokens == count_tokens(msgs[i].content, model)
         IN  IF acc.total_tokens + msg_tokens <= available_tokens
             THEN TrimLoopAppend(msgs, model, available_tokens, i - 1,
                                 [acc EXCEPT !.trimmed = @ \o <<msgs[i]>>,
                                             !.total_tokens = @ + msg_tokens])
             ELSE TrimLoopAppend(msgs, model, available_tokens, i - 1,
                                 [acc EXCEPT !.removed_count = @ + 1])

\* The loop of trim_messages_to_context, newest message first: i is the index
\* of the message being looked at, acc the loop's three locals.
RECURSIVE TrimLoop(_, _, _, _, _)
TrimLoop(msgs, model, available_tokens, i, acc) ==
    IF i = 0 THEN acc
    ELSE LET msg_tokens == count_tokens(msgs[i].content, model)
         IN  IF acc.total_tokens + msg_tokens <= available_tokens
             THEN TrimLoop(msgs, model, available_tokens, i - 1,
                           [acc EXCEPT !.trimmed = <<msgs[i]>> \o @,
                                       !.total_tokens = @ + msg_tokens])
             ELSE TrimLoop(msgs, model, available_tokens, i - 1,
                           [acc EXCEPT !.removed_count = @ + 1])

\* a test that lets a budget of exactly zero through to the loop
NoRoomBelowZero(available_tokens) == available_tokens < 0

\* line 114: nothing is left of the window for messages
NoRoom(available_tokens) == available_tokens <= 0

\* LLMService.trim_messages_to_context
trim_messages_to_context(msgs, model, sys_prompt, reserve_tokens) ==
    LET max_input_tokens == get_model_config(model).context_window - reserve_tokens
        system_tokens == IF sys_prompt # 0 THEN count_tokens(sys_prompt, model) ELSE 0
        available_tokens == max_input_tokens - system_tokens
        \* lines 138-145: the return value, given the locals the loop leaves
        TrimInfo(loop) ==
            [messages |-> loop.trimmed,
             status |-> "trimmed",
             messages_removed |-> loop.removed_count,
             messages_kept |-> Len(loop.trimmed),
             tokens_used |-> system_tokens + loop.total_tokens,
             available_tokens |-> available_tokens,
             tokens_used_by_messages |-> loop.total_tokens]
    IN  IF NoRoom(available_tokens)
        THEN [messages |-> <<>>,
              status |-> "error",
              reason |-> "System prompt too large for context window",
              system_tokens |-> system_tokens,
              available_tokens |-> available_tokens]
        ELSE TrimInfo(TrimLoop(msgs, model, available_tokens, Len(msgs),
                               [trimmed |-> <<>>, total_tokens |-> 0,
                                removed_count |-> 0]))

\* LLMService.clean_messages
clean_messages(msgs, model, sys_prompt, max_message_length, reserve_tokens) ==
    LET filter_info == filter_messages_by_length(msgs, max_message_length)
        CleaningInfo(trim_info) ==
            [messages |-> trim_info.messages,
             filtering |-> filter_info,
             trimming |-> trim_info,
             total_removed |-> filter_info.deleted_count
                               + (IF "messages_removed" \in DOMAIN trim_info
                                  THEN trim_info.messages_removed ELSE 0)]
    IN  CleaningInfo(trim_messages_to_context(filter_info.messages, model,
                                              sys_prompt, reserve_tokens))

(***************************************************************************)
(* Python's None and "a value": the empty sequence and a one-element one   *)
(***************************************************************************)
None == <<>>

Some(x) == <<x>>

CleanerIdle == cleaner_in = None /\ cleaner_out = None

CallIdle == call = None /\ ret = None /\ manager = None

(***************************************************************************)
(* Specification SpecTrim: trim_messages_to_context applied to every      *)
(* message sequence of at most MaxLen messages                             *)
(***************************************************************************)
MaxLen == 3

\* word counts of the messages handed to the cleaner
TrimContents == {10, 50, 2000, 3000}
\* word counts of the system prompt (0: no system prompt)
TrimSystemPrompts == {0, 10, 2382, 2400}
TrimModels == {"openai/gpt-3.5-turbo", "openai/gpt-4"}
DEFAULT_RESERVE_TOKENS == 1000

RECURSIVE SeqsUpTo(_, _)
SeqsUpTo(S, n) ==
    IF n = 0 THEN {<<>>}
    ELSE LET shorter == SeqsUpTo(S, n - 1)
         IN  shorter \cup {Append(q, x) : q \in {r \in shorter : Len(r) = n - 1}, x \in S}

TrimInputs ==
    [messages : SeqsUpTo({[role |-> "user", content |-> c] : c \in TrimContents}, MaxLen),
     model : TrimModels,
     system_prompt : TrimSystemPrompts,
     reserve_tokens : {DEFAULT_RESERVE_TOKENS}]

(***************************************************************************)
(* SummaryStore data (the JSON value kept in Summary.summary_data)         *)
(*                                                                         *)
(* A JSON value carries its Python type: a list of item texts, a dict of   *)
(* name/description entries, or a bare string.  A summary dict is a        *)
(* function from the keys it holds to such values.                         *)
(***************************************************************************)
JList(items) == [type |-> "list", items |-> items, entries |-> <<>>]

JDict(entries) == [type |-> "dict", items |-> <<>>, entries |-> entries]

JStr(text) == [type |-> "str", items |-> <<text>>, entries |-> <<>>]

SummaryKeys ==
    {"core_facts", "user_preferences", "decisions_made", "constraints",
     "open_questions", "entities", "unlabeled"}

\* SummarizationService._empty_summary
empty_summary ==
    [k \in SummaryKeys |-> IF k = "entities" THEN JDict(<<>>) ELSE JList(<<>>)]

\* SummarizationService._validate_summary_structure on a JSON object
validate_summary_structure(data) ==
    [k \in DOMAIN data \cup SummaryKeys |->
        IF k \notin DOMAIN data THEN empty_summary[k]
        ELSE IF k \in SummaryKeys /\ empty_summary[k].type = "list"
                /\ data[k].type # "list" THEN JList(<<>>)
        ELSE IF k \in SummaryKeys /\ empty_summary[k].type = "dict"
                /\ data[k].type # "dict" THEN JDict(<<>>)
        ELSE data[k]]

\* The item and entity texts the summarization model writes, with their
\* numbers of words.
TextWords(t) ==
    CASE t = "uses postgres" -> 2
      [] t = "prefers short answers" -> 3
      [] t = "ship on friday" -> 3
      [] t = "no downtime" -> 2
      [] t = "which region" -> 2
      [] t = "Acme" -> 1
      [] t = "the client" -> 2
      [] t = "misc" -> 1
      [] OTHER -> 1

ItemsWords(items) == SumSeq([i \in 1..Len(items) |-> TextWords(items[i])])

\* dict.get(key) is truthy: the key is there with a non-empty value
Truthy(data, k) ==
    /\ k \in DOMAIN data
    /\ \/ data[k].type = "list" /\ data[k].items # <<>>
       \/ data[k].type = "dict" /\ data[k].entries # <<>>
       \/ data[k].type = "str" /\ data[k].items # <<0>>

\* summary_data_to_text: the categories it prints and the words of its text.
\* Each printed category is a header line and one bullet line per item.
RenderedFields ==
    <<"core_facts", "user_preferences", "decisions_made", "constraints",
      "open_questions", "entities">>

HeaderWords(k) == IF k = "constraints" THEN 1 ELSE 2

SectionWords(data, k) ==
    IF k = "entities"
    THEN HeaderWords(k)
         + SumSeq([i \in 1..Len(data[k].entries) |->
                     1 + TextWords(data[k].entries[i][1])
                       + TextWords(data[k].entries[i][2])])
    ELSE HeaderWords(k) + Len(data[k].items) + ItemsWords(data[k].items)

NO_SUMMARY_TEXT_WORDS == 4

summary_data_to_text(data) ==
    LET printed == {RenderedFields[i] : i \in {j \in 1..Len(RenderedFields) :
                                                Truthy(data, RenderedFields[j])}}
        words == SumSeq([i \in 1..Len(RenderedFields) |->
                           IF RenderedFields[i] \in printed
                           THEN SectionWords(data, RenderedFields[i]) ELSE 0])
    IN  IF printed = {}
        THEN [fields |-> {}, words |-> NO_SUMMARY_TEXT_WORDS]
        ELSE [fields |-> printed, words |-> words]

\* json.dumps(summary, indent=2): its number of words
JsonWords(data) ==
    LET keys == DOMAIN data
        value(k) ==
            IF data[k].type = "list"
            THEN IF data[k].items = <<>> THEN 2
                 ELSE 3 + ItemsWords(data[k].items)
            ELSE IF data[k].type = "dict"
            THEN IF data[k].entries = <<>> THEN 2
                 ELSE 3 + SumSeq([i \in 1..Len(data[k].entries) |->
                                    1 + TextWords(data[k].entries[i][2])])
            ELSE 1 + data[k].items[1]
        RECURSIVE total(_)
        total(K) == IF K = {} THEN 0
                    ELSE LET k == CHOOSE x \in K : TRUE
                         IN  value(k) + total(K \ {k})
    IN  2 + total(keys)

(***************************************************************************)
(* SummarySlicer (app/utils/summary_utils.py, class SummarySlicingEngine)  *)
(***************************************************************************)
SUMMARY_TYPES ==
    [small |-> <<"core_facts", "user_preferences">>,
     medium |-> <<"core_facts", "user_preferences", "decisions_made",
                  "constraints", "open_questions">>,
     large |-> <<"core_facts", "user_preferences", "decisions_made",
                 "constraints", "open_questions", "entities">>]

Range(f) == {f[i] : i \in DOMAIN f}

\* SummarySlicingEngine.slice_summary on a summary dict
slice_summary(summary, summary_type) ==
    LET type == IF summary_type \in DOMAIN SUMMARY_TYPES THEN summary_type ELSE "medium"
        fields == Range(SUMMARY_TYPES[type])
    IN  [k \in fields \cap DOMAIN summary |-> summary[k]]

(***************************************************************************)
(* ContextBudget (app/utils/token_counter.py, class ContextWindowManager)  *)
(***************************************************************************)
MANAGER_BUFFER == 500

\* ContextWindowManager.__init__
NewContextWindowManager(model, buffer) ==
    [model_name |-> model, buffer |-> buffer, used_tokens |-> 0,
     token_history |-> <<>>]

\* an add_tokens that sets used_tokens to the tokens of the last text
add_tokens_overwriting(mgr, text, source) ==
    [mgr EXCEPT !.used_tokens = count_tokens(text, mgr.model_name),
                !.token_history =
                    Append(@, [source |-> source,
                               tokens |-> count_tokens(text, mgr.model_name),
                               cumulative |-> count_tokens(text, mgr.model_name)])]

\* ContextWindowManager.add_tokens: the manager after the call
add_tokens(mgr, text, source) ==
    LET tokens == count_tokens(text, mgr.model_name)
    IN  [mgr EXCEPT !.used_tokens = @ + tokens,
                    !.token_history =
                        Append(@, [source |-> source, tokens |-> tokens,
                                   cumulative |-> mgr.used_tokens + tokens])]

(***************************************************************************)
(* LLMService.generate_response (app/services/llm_service.py)              *)
(*                                                                         *)
(* holder is the service's context_manager (None or Some(manager)); reply  *)
(* is what the completion collaborator does if it is called:               *)
(* [ok |-> FALSE, text |-> 0] for a transport or HTTP failure,             *)
(* [ok |-> TRUE, text |-> w] for a response text of w words.               *)
(***************************************************************************)
\* Lines 219-221: the manager is built only when the service has none or has
\* one for another model; otherwise the one it has is used again.
ManagerFor(holder, model) ==
    IF holder = None \/ holder[1].model_name # model
    THEN NewContextWindowManager(model, MANAGER_BUFFER)
    ELSE holder[1]

SystemEntry(sys_prompt) ==
    [role |-> "system", content |-> sys_prompt, kind |-> "system", ref |-> 0,
     fields |-> {}]

generate_response(holder, model, sys_prompt, msgs, max_tokens, max_message_length, reply) ==
    IF ~IsRegistered(model)
    THEN [raised |-> "Unknown model", manager |-> holder, payload |-> None,
          text |-> 0]
    ELSE
    LET \* lines 236-310, given the manager and the cleaned messages
        Request(mgr, messages_to_use) ==
            LET input_tokens == count_messages_tokens(messages_to_use, model,
                                                      sys_prompt)
                validation == validate_context(model, input_tokens,
                                               VALIDATE_DEFAULT_BUFFER)
                payload == [model |-> model, max_tokens |-> max_tokens,
                            messages |-> <<SystemEntry(sys_prompt)>>
                                         \o messages_to_use]
            IN  IF ~validation.is_valid
                THEN [raised |-> "Token validation failed", manager |-> Some(mgr),
                      payload |-> None, text |-> 0]
                ELSE IF ~reply.ok
                THEN [raised |-> "Error generating response",
                      manager |-> Some(mgr),
                      payload |-> Some(payload), text |-> 0]
                ELSE [raised |-> "none",
                      manager |-> Some(add_tokens(mgr, reply.text, "response")),
                      payload |-> Some(payload), text |-> reply.text]
    IN  Request(ManagerFor(holder, model),
                clean_messages(msgs, model, sys_prompt, max_message_length,
                               max_tokens).messages)

(***************************************************************************)
(* Storage collaborator (app/crud/thread_crud.py) on the one thread        *)
(***************************************************************************)
\* add_message_to_thread: the row it inserts (content is a string here)
NewMessage(role, content, model_used) ==
    [id |-> Len(messages) + 1, role |-> role, content |-> content,
     model_used |-> model_used, timestamp |-> now]

\* get_last_summary_timestamp_for_thread: thread.summaries[0].created_at.
\* The relationship is loaded without an ORDER BY, so with several rows
\* any of them can come first.
LastSummaryTimestamps ==
    IF summaries = <<>> THEN {None}
    ELSE {Some(summaries[i].created_at) : i \in DOMAIN summaries}

\* get_messages_for_thread(exclude_before_summary=True), given the timestamp
\* read by get_last_summary_timestamp_for_thread
get_messages_for_thread(ts) ==
    IF ts = None THEN messages
    ELSE LET after(m) == m.timestamp > ts[1] IN SelectSeq(messages, after)

\* get_last_summary_for_thread, and the query of add_summary_to_thread:
\* ORDER BY created_at DESC, first row
get_last_summary_for_thread ==
    IF summaries = <<>> THEN None
    ELSE Some(CHOOSE r \in Range(summaries) :
                \A o \in Range(summaries) : o.created_at <= r.created_at)

(***************************************************************************)
(* ConversationOrchestrator (app/services/thread_service.py)               *)
(***************************************************************************)
SUMMARIZATION_THRESHOLD == 4
MAX_SYSTEM_PROMPT_TOKENS == 250
GENERATE_DEFAULT_MAX_TOKENS == 1000
GENERATE_DEFAULT_MAX_MESSAGE_LENGTH == 5000
SUMMARIZE_MAX_MESSAGE_LENGTH == 50000
SUMMARIZATION_MODEL == "openai/gpt-3.5-turbo"

\* The length check made on the context window instead of max_tokens.
MsgTooLongForWindow(user_message, model) ==
    count_tokens(user_message, model) > get_model_config(model).context_window

\* Lines 62-67: the precondition on the raw user message
MsgTooLong(user_message, model) ==
    count_tokens(user_message, model) > get_model_config(model).max_tokens

\* Lines 99-105: message_limits.get(summary_type, 5)
message_limits(summary_type) ==
    CASE summary_type = "small" -> 2
      [] summary_type = "medium" -> 5
      [] summary_type = "large" -> 10
      [] OTHER -> 5

LastN(s, n) == IF Len(s) <= n THEN s ELSE SubSeq(s, Len(s) - n + 1, Len(s))

\* Lines 116-128: the words of the prompt are added one by one while the
\* estimate of the prefix stays within the cap, and the loop breaks at the
\* first word that does not fit; the value is the number of words kept.
TruncateLoop(words, model) ==
    CHOOSE n \in 0..words :
        /\ \A k \in 1..n : count_tokens(k, model) <= MAX_SYSTEM_PROMPT_TOKENS
        /\ n = words \/ count_tokens(n + 1, model) > MAX_SYSTEM_PROMPT_TOKENS

system_prompt_to_use(prompt, model) ==
    IF count_tokens(prompt, model) > MAX_SYSTEM_PROMPT_TOKENS
    THEN TruncateLoop(prompt, model)
    ELSE prompt

\* SummarySlicingEngine.get_summary_for_model on a summary dict
get_summary_for_model(summary, model) ==
    slice_summary(summary, get_summary_size_for_model(model))

\* Lines 136-141.  get_summary_for_model is handed last_summary, the Summary
\* row, not its summary_data: `field in summary` raises TypeError on a row,
\* the except clause takes over and sliced is the whole summary_data.
SlicedForPrompt(last_summary, model) == last_summary.summary_data

PREVIOUS_SUMMARY_TAG_WORDS == 2

\* Lines 143-146: the assistant-role block "[Previous Summary]\n<text>"
SummaryBlock(sliced) ==
    LET text == summary_data_to_text(sliced)
    IN  [role |-> "assistant", content |-> PREVIOUS_SUMMARY_TAG_WORDS + text.words,
         kind |-> "summary", ref |-> 0, fields |-> text.fields]

\* Lines 149-153
HistoryEntry(msg) ==
    [role |-> IF msg.role = "user" THEN "user" ELSE "assistant",
     content |-> msg.content, kind |-> "history", ref |-> msg.id, fields |-> {}]

\* Lines 156-159
CurrentEntry(user_message) ==
    [role |-> "user", content |-> user_message, kind |-> "current", ref |-> 0,
     fields |-> {}]

\* Lines 96-159: messages_for_llm
BuildMessagesForLLM(prompt, last_summary, recent_messages, user_message, model) ==
    LET max_messages == message_limits(get_summary_size_for_model(model))
        limited_messages == LastN(recent_messages, max_messages)
    IN  (IF prompt # 0
         THEN <<SystemEntry(system_prompt_to_use(prompt, model))>> ELSE <<>>)
        \o (IF last_summary # None
            THEN <<SummaryBlock(SlicedForPrompt(last_summary[1], model))>> ELSE <<>>)
        \o [i \in 1..Len(limited_messages) |-> HistoryEntry(limited_messages[i])]
        \o <<CurrentEntry(user_message)>>

\* Lines 189-191: the threshold test
ShouldSummarize(recent_messages) ==
    Len(recent_messages) + 2 >= SUMMARIZATION_THRESHOLD

Returned == [kind |-> "returned", reason |-> "MessageResponse"]

Raised(kind, reason) == [kind |-> kind, reason |-> reason]

\* The handler of _trigger_summarization re-raising what it caught.
AfterSummarizationErrorRaise(reason) == Raised("Exception", reason)

\* Lines 243-245: an exception inside _trigger_summarization is printed and
\* dropped; process_user_message goes on to its return statement.
AfterSummarizationError(reason) == Returned

(***************************************************************************)
(* SummarizationEngine (app/services/summarization_service.py)             *)
(***************************************************************************)
SUMMARIZER_SYSTEM_PROMPT_WORDS == 168
SUMMARIZE_REQUEST_WORDS == 6
SUMMARIZE_UPDATE_WORDS == 29

\* Lines 65-68: one line "<sender> (<role>): <content>" per message
ConversationWords(msgs) ==
    SumSeq([i \in 1..Len(msgs) |-> 2 + msgs[i].content])

\* Lines 100-115: the single user message of the summarization request
SummarizeUserMessage(msgs, previous_summary) ==
    LET words == IF previous_summary # None /\ DOMAIN previous_summary[1] # {}
                 THEN SUMMARIZE_UPDATE_WORDS + JsonWords(previous_summary[1])
                      + ConversationWords(msgs)
                 ELSE SUMMARIZE_REQUEST_WORDS + ConversationWords(msgs)
    IN  [role |-> "user", content |-> words, kind |-> "current", ref |-> 0,
         fields |-> {}]

\* a test that takes no list for empty
NeverEmpty(msgs) == FALSE

\* line 61: not messages
NoMessages(msgs) == msgs = <<>>

\* Lines 61-62 for an empty message list: the empty summary, and nothing is
\* posted.  Lines 119-149 otherwise.  reply carries, besides ok and
\* text, what json.loads makes of the text: json is "invalid" (JSONDecodeError),
\* "array" (any valid JSON that is not an object) or "object" with data.
summarize_conversation(holder, msgs, previous_summary, reply) ==
    LET \* lines 129-149: what is made of the outcome of generate_response
        Parsed(response) ==
            [raised |-> IF response.raised # "none" \/ reply.json = "array"
                        THEN "Failed to summarize conversation" ELSE "none",
             summary |-> IF response.raised # "none" \/ reply.json = "array"
                         THEN None
                         ELSE IF reply.json = "invalid" THEN Some(empty_summary)
                         ELSE Some(validate_summary_structure(reply.data)),
             manager |-> response.manager,
             payload |-> response.payload]
    IN  IF NoMessages(msgs)
        THEN [raised |-> "none", summary |-> Some(empty_summary),
              manager |-> holder, payload |-> None]
        ELSE Parsed(generate_response(holder, SUMMARIZATION_MODEL,
                                      SUMMARIZER_SYSTEM_PROMPT_WORDS,
                                      <<SummarizeUserMessage(msgs, previous_summary)>>,
                                      GENERATE_DEFAULT_MAX_TOKENS,
                                      SUMMARIZE_MAX_MESSAGE_LENGTH, reply))

(***************************************************************************)
(* Specification Spec: worker processes serving one thread                 *)
(*                                                                         *)
(* Each worker runs process_user_message calls one after another; two      *)
(* workers share the database and interleave between database statements   *)
(* and collaborator calls.                                                 *)
(***************************************************************************)
Workers == {"w1", "w2"}

\* calls that may start in all, with two workers and with one
MaxCalls == 2
MaxSeqCalls == 3

\* word counts of the thread's system prompt
SystemPrompts == {10, 2400, 3100}
\* word counts of the user messages
UserMessages == {5, 800}
RequestModels == {"openai/gpt-3.5-turbo", "anthropic/claude-3-haiku"}

\* what the completion collaborator does with a chat request
Replies == {[ok |-> FALSE, text |-> 0], [ok |-> TRUE, text |-> 20]}

FullSummary ==
    [k \in SummaryKeys |->
        CASE k = "core_facts" -> JList(<<"uses postgres">>)
          [] k = "user_preferences" -> JList(<<"prefers short answers">>)
          [] k = "decisions_made" -> JList(<<"ship on friday">>)
          [] k = "constraints" -> JList(<<"no downtime">>)
          [] k = "open_questions" -> JList(<<"which region">>)
          [] k = "entities" -> JDict(<<(<<"Acme", "the client">>)>>)
          [] k = "unlabeled" -> JList(<<"misc">>)]

\* a JSON object with categories missing and categories of the wrong type
MalformedSummary ==
    [k \in {"core_facts", "entities", "constraints"} |->
        CASE k = "core_facts" -> JList(<<"uses postgres">>)
          [] k = "entities" -> JList(<<"Acme">>)
          [] k = "constraints" -> JStr(2)]

\* what the completion collaborator does with a summarization request
SummarizerReplies ==
    {[ok |-> FALSE, text |-> 0, json |-> "invalid", data |-> empty_summary],
     [ok |-> TRUE, text |-> 12, json |-> "invalid", data |-> empty_summary],
     [ok |-> TRUE, text |-> 1, json |-> "array", data |-> empty_summary],
     [ok |-> TRUE, text |-> 30, json |-> "object", data |-> FullSummary],
     [ok |-> TRUE, text |-> 8, json |-> "object", data |-> MalformedSummary]}

NoRequest ==
    [model |-> "none", user_message |-> 0, user_msg |-> 0,
     recent_messages |-> <<>>, last_summary |-> None, messages_for_llm |-> <<>>,
     response |-> None, agent_msg |-> 0, summarize |-> FALSE,
     sum_messages |-> <<>>, sum_last_summary |-> None, summarized |-> None,
     existing |-> None]

ThreadStart(running, budget) ==
    /\ system_prompt \in SystemPrompts
    /\ messages = <<>>
    /\ summaries = <<>>
    /\ now = 1
    /\ pc = [w \in Workers |-> IF w \in running THEN "idle" ELSE "off"]
    /\ req = [w \in Workers |-> NoRequest]
    /\ result = [w \in Workers |-> Raised("none", "")]
    /\ context_manager = [w \in Workers |-> None]
    /\ calls_left = budget

ThreadIdle ==
    /\ system_prompt = 0
    /\ messages = <<>>
    /\ summaries = <<>>
    /\ now = 1
    /\ pc = [w \in Workers |-> "off"]
    /\ req = [w \in Workers |-> NoRequest]
    /\ result = [w \in Workers |-> Raised("none", "")]
    /\ context_manager = [w \in Workers |-> None]
    /\ calls_left = 0

\* process_user_message, lines 62-80: the length check, then the user
\* message is stored (the thread exists).
ProcessUserMessage(w, user_message, model) ==
    /\ pc[w] = "idle"
    /\ calls_left > 0
    /\ calls_left' = calls_left - 1
    /\ IF MsgTooLong(user_message, model)
       THEN /\ result' = [result EXCEPT ![w] = Raised("ValueError", "ERROR_MSG_TOO_LONG")]
            /\ req' = [req EXCEPT ![w] = [NoRequest EXCEPT !.model = model,
                                                          !.user_message = user_message]]
            /\ UNCHANGED <<system_prompt, messages, summaries, now, pc, context_manager>>
       ELSE /\ messages' = Append(messages, NewMessage("user", user_message, "none"))
            /\ now' = now + 1
            /\ req' = [req EXCEPT ![w] = [NoRequest EXCEPT !.model = model,
                                                          !.user_message = user_message,
                                                          !.user_msg = Len(messages) + 1]]
            /\ pc' = [pc EXCEPT ![w] = "get_messages"]
            /\ result' = [result EXCEPT ![w] = Raised("none", "")]
            /\ UNCHANGED <<system_prompt, summaries, context_manager>>
    /\ UNCHANGED <<cleanerVars, callVars,
                   workflowVars>>

\* Lines 83-87: recent_messages
GetRecentMessages(w) ==
    /\ pc[w] = "get_messages"
    /\ \E ts \in LastSummaryTimestamps :
          req' = [req EXCEPT ![w].recent_messages = get_messages_for_thread(ts)]
    /\ pc' = [pc EXCEPT ![w] = "get_summary"]
    /\ UNCHANGED <<system_prompt, messages, summaries, now, result,
                   context_manager, calls_left, cleanerVars, callVars,
                   workflowVars>>

\* Lines 90-159: last_summary, then messages_for_llm is assembled
GetLastSummaryAndBuild(w) ==
    /\ pc[w] = "get_summary"
    /\ LET last_summary == get_last_summary_for_thread
       IN  req' = [req EXCEPT
                     ![w].last_summary = last_summary,
                     ![w].messages_for_llm =
                         BuildMessagesForLLM(system_prompt, last_summary,
                                             req[w].recent_messages,
                                             req[w].user_message, req[w].model)]
    /\ pc' = [pc EXCEPT ![w] = "generate"]
    /\ UNCHANGED <<system_prompt, messages, summaries, now, result,
                   context_manager, calls_left, cleanerVars, callVars,
                   workflowVars>>

\* A handler that drops what generate_response raised and goes on.
GenerateErrorDropped(reason) ==
    [pc |-> "save_agent", result |-> Raised("none", "")]

\* Lines 176-177: what generate_response raised is raised again as
\* "Failed to generate LLM response"; process_user_message ends there.
AfterGenerateError(reason) ==
    [pc |-> "idle", result |-> Raised("Exception", reason)]

\* Lines 161-177: generate_response with the thread's system prompt; any
\* exception is re-raised as "Failed to generate LLM response".
GenerateResponse(w, reply) ==
    /\ pc[w] = "generate"
    /\ \E response \in {generate_response(context_manager[w], req[w].model,
                                           system_prompt, req[w].messages_for_llm,
                                           GENERATE_DEFAULT_MAX_TOKENS,
                                           GENERATE_DEFAULT_MAX_MESSAGE_LENGTH,
                                           reply)} :
           /\ context_manager' = [context_manager EXCEPT ![w] = response.manager]
           /\ req' = [req EXCEPT ![w].response =
                                    Some([raised |-> response.raised,
                                          payload |-> response.payload,
                                          text |-> response.text])]
           /\ IF response.raised # "none"
              THEN /\ pc' = [pc EXCEPT ![w] = AfterGenerateError(response.raised).pc]
                   /\ result' = [result EXCEPT
                                   ![w] = AfterGenerateError(response.raised).result]
              ELSE /\ pc' = [pc EXCEPT ![w] = "save_agent"]
                   /\ UNCHANGED result
    /\ UNCHANGED <<system_prompt, messages, summaries, now, calls_left,
                   cleanerVars, callVars,
                   workflowVars>>

\* Lines 179-195: the agent message is stored, then the threshold test
\* either enters _trigger_summarization or the call returns.
SaveAgentMessage(w) ==
    /\ pc[w] = "save_agent"
    /\ messages' = Append(messages, NewMessage("agent", req[w].response[1].text,
                                               req[w].model))
    /\ now' = now + 1
    /\ IF ShouldSummarize(req[w].recent_messages)
       THEN /\ req' = [req EXCEPT ![w].agent_msg = Len(messages) + 1,
                                  ![w].summarize = TRUE]
            /\ pc' = [pc EXCEPT ![w] = "sum_get_messages"]
            /\ UNCHANGED result
       ELSE /\ req' = [req EXCEPT ![w].agent_msg = Len(messages) + 1]
            /\ pc' = [pc EXCEPT ![w] = "idle"]
            /\ result' = [result EXCEPT ![w] = Returned]
    /\ UNCHANGED <<system_prompt, summaries, context_manager, calls_left,
                   cleanerVars, callVars,
                   workflowVars>>

\* _trigger_summarization, lines 207-215: the messages to summarize
TriggerGetMessages(w) ==
    /\ pc[w] = "sum_get_messages"
    /\ \E ts \in LastSummaryTimestamps :
          LET msgs == get_messages_for_thread(ts)
          IN  /\ req' = [req EXCEPT ![w].sum_messages = msgs]
              /\ IF msgs = <<>>
                 THEN /\ pc' = [pc EXCEPT ![w] = "idle"]
                      /\ result' = [result EXCEPT ![w] = Returned]
                 ELSE /\ pc' = [pc EXCEPT ![w] = "sum_get_summary"]
                      /\ UNCHANGED result
    /\ UNCHANGED <<system_prompt, messages, summaries, now, context_manager,
                   calls_left, cleanerVars, callVars,
                   workflowVars>>

\* Lines 217-218: the previous summary
TriggerGetLastSummary(w) ==
    /\ pc[w] = "sum_get_summary"
    /\ req' = [req EXCEPT ![w].sum_last_summary = get_last_summary_for_thread]
    /\ pc' = [pc EXCEPT ![w] = "summarize"]
    /\ UNCHANGED <<system_prompt, messages, summaries, now, result,
                   context_manager, calls_left, cleanerVars, callVars,
                   workflowVars>>

\* Lines 220-234 and 243-245: summarize_conversation; what it raises is
\* caught by _trigger_summarization.  json keeps what json.loads made of the
\* model's text in this attempt.
SummarizeConversation(w, reply) ==
    /\ pc[w] = "summarize"
    /\ \E out \in {summarize_conversation(
                         context_manager[w], req[w].sum_messages,
                         IF req[w].sum_last_summary = None THEN None
                         ELSE Some(req[w].sum_last_summary[1].summary_data),
                         reply)} :
           /\ context_manager' = [context_manager EXCEPT ![w] = out.manager]
           /\ req' = [req EXCEPT ![w].summarized =
                                    Some([raised |-> out.raised, summary |-> out.summary,
                                          payload |-> out.payload,
                                          json |-> reply.json])]
           /\ IF out.raised # "none"
              THEN /\ pc' = [pc EXCEPT ![w] = "idle"]
                   /\ result' = [result EXCEPT ![w] = AfterSummarizationError(out.raised)]
              ELSE /\ pc' = [pc EXCEPT ![w] = "upsert_query"]
                   /\ UNCHANGED result
    /\ UNCHANGED <<system_prompt, messages, summaries, now, calls_left,
                   cleanerVars, callVars,
                   workflowVars>>

\* add_summary_to_thread, line 138: the query for the existing summary
UpsertQuery(w) ==
    /\ pc[w] = "upsert_query"
    /\ req' = [req EXCEPT ![w].existing = get_last_summary_for_thread]
    /\ pc' = [pc EXCEPT ![w] = "upsert_commit"]
    /\ UNCHANGED <<system_prompt, messages, summaries, now, result,
                   context_manager, calls_left, cleanerVars, callVars,
                   workflowVars>>

\* add_summary_to_thread, lines 139-160: the row found is updated, or a new
\* row is inserted; then process_user_message returns.  The field handed is
\* bookkeeping the program does not store: the ids of the messages that were
\* in the lists given to the summarization runs that wrote the row.
UpsertCommit(w) ==
    /\ pc[w] = "upsert_commit"
    /\ LET data == req[w].summarized[1].summary[1]
           count == Len(req[w].sum_messages)
           ids == {req[w].sum_messages[i].id : i \in DOMAIN req[w].sum_messages}
       IN  IF req[w].existing # None
           THEN summaries' = [i \in DOMAIN summaries |->
                                IF summaries[i].id = req[w].existing[1].id
                                THEN [summaries[i] EXCEPT !.summary_data = data,
                                                          !.message_count = count,
                                                          !.created_at = now,
                                                          !.handed = @ \cup ids]
                                ELSE summaries[i]]
           ELSE summaries' = Append(summaries,
                                    [id |-> Len(summaries) + 1, summary_data |-> data,
                                     message_count |-> count, created_at |-> now,
                                     handed |-> ids])
    /\ now' = now + 1
    /\ pc' = [pc EXCEPT ![w] = "idle"]
    /\ result' = [result EXCEPT ![w] = Returned]
    /\ UNCHANGED <<system_prompt, messages, req, context_manager, calls_left,
                   cleanerVars, callVars,
                   workflowVars>>

WorkerStep(w) ==
    \/ \E user_message \in UserMessages, model \in RequestModels :
          ProcessUserMessage(w, user_message, model)
    \/ GetRecentMessages(w)
    \/ GetLastSummaryAndBuild(w)
    \/ \E reply \in Replies : GenerateResponse(w, reply)
    \/ SaveAgentMessage(w)
    \/ TriggerGetMessages(w)
    \/ TriggerGetLastSummary(w)
    \/ \E reply \in SummarizerReplies : SummarizeConversation(w, reply)
    \/ UpsertQuery(w)
    \/ UpsertCommit(w)

WorkflowIdle ==
    /\ wf_pc = "idle"
    /\ wf_state = None
    /\ wf_error = "none"
    /\ wf_manager = None
    /\ wf_runs = 0
    /\ wf_posted = <<>>

Next == \E w \in Workers : WorkerStep(w)

\* two workers on the thread
Init == CleanerIdle /\ CallIdle /\ ThreadStart(Workers, MaxCalls) /\ WorkflowIdle

Spec == Init /\ [][Next]_vars

\* one worker on the thread: calls strictly one after another
InitSeq == CleanerIdle /\ CallIdle /\ ThreadStart({"w1"}, MaxSeqCalls) /\ WorkflowIdle

SpecSeq == InitSeq /\ [][Next]_vars

(***************************************************************************)
(* Specification SpecTrim: one trim_messages_to_context call on each of    *)
(* the argument lists of TrimInputs                                        *)
(***************************************************************************)
TrimMessagesToContext ==
    /\ cleaner_in # None
    /\ cleaner_out = None
    /\ cleaner_out' = Some(trim_messages_to_context(cleaner_in[1].messages,
                                                    cleaner_in[1].model,
                                                    cleaner_in[1].system_prompt,
                                                    cleaner_in[1].reserve_tokens))
    /\ UNCHANGED <<cleaner_in, callVars, threadVars, workflowVars>>

InitTrim ==
    /\ cleaner_in \in {Some(a) : a \in TrimInputs}
    /\ cleaner_out = None
    /\ CallIdle
    /\ ThreadIdle
    /\ WorkflowIdle

NextTrim == TrimMessagesToContext

SpecTrim == InitTrim /\ [][NextTrim]_vars

(***************************************************************************)
(* Properties of trim_messages_to_context (specification SpecTrim)         *)
(***************************************************************************)
\* context_window - reserve_tokens - system_prompt_tokens of the call made
TrimAvailable ==
    get_model_config(cleaner_in[1].model).context_window
    - cleaner_in[1].reserve_tokens
    - (IF cleaner_in[1].system_prompt # 0
       THEN count_tokens(cleaner_in[1].system_prompt, cleaner_in[1].model) ELSE 0)

\* the sum of the token estimates of a message sequence
EstimateSum(msgs, model) ==
    SumSeq([i \in 1..Len(msgs) |-> count_tokens(msgs[i].content, model)])

TrimReturned == cleaner_out # None /\ TrimAvailable > 0

\* C3: with available > 0 the retained messages are a contiguous suffix of
\* the input (whenever a message is evicted, every older one is evicted too).
C3_RetainedIsSuffix ==
    TrimReturned =>
        \E k \in 0..Len(cleaner_in[1].messages) :
            cleaner_out[1].messages =
                SubSeq(cleaner_in[1].messages, k + 1, Len(cleaner_in[1].messages))

\* C4: with available > 0 the estimates of the retained messages sum to at
\* most available, tokens_used_by_messages is that sum, messages_kept +
\* messages_removed is the length of the input, and an input whose total
\* estimate fits has nothing removed.
C4_TrimWithinBudget ==
    TrimReturned =>
        /\ EstimateSum(cleaner_out[1].messages, cleaner_in[1].model) <= TrimAvailable
        /\ cleaner_out[1].tokens_used_by_messages =
               EstimateSum(cleaner_out[1].messages, cleaner_in[1].model)
        /\ cleaner_out[1].messages_kept = Len(cleaner_out[1].messages)
        /\ cleaner_out[1].messages_kept + cleaner_out[1].messages_removed =
               Len(cleaner_in[1].messages)
        /\ (EstimateSum(cleaner_in[1].messages, cleaner_in[1].model) <= TrimAvailable
               => cleaner_out[1].messages_removed = 0)

\* a call that kept some messages and removed others
C4_TrimmedSome ==
    /\ TrimReturned
    /\ cleaner_out[1].messages_kept > 0
    /\ cleaner_out[1].messages_removed > 0

(***************************************************************************)
(* Properties of process_user_message, one call after another (SpecSeq)    *)
(***************************************************************************)
\* the number of stored messages written after the current summary
MessagesSinceLastSummary ==
    LET last == get_last_summary_for_thread
        after(m) == m.timestamp > last[1].created_at
    IN  IF last = None THEN Len(messages) ELSE Len(SelectSeq(messages, after))

\* the call of w stored its agent message and went into _trigger_summarization
SummarizationInvoked(w) == pc[w] = "sum_get_messages"

\* the call of w stored its agent message and returned without summarizing
ReturnedWithoutSummarizing(w) ==
    /\ pc[w] = "idle"
    /\ result[w] = Returned
    /\ req[w].agent_msg # 0
    /\ ~req[w].summarize

\* C1: summarization is invoked at the end of a call exactly when the number
\* of stored messages since the last summary, the two of this call included,
\* is at least 4: never below 4, always at 4 or more.
C1_SummarizesExactlyAtThreshold ==
    \A w \in Workers :
        /\ SummarizationInvoked(w) =>
               MessagesSinceLastSummary >= SUMMARIZATION_THRESHOLD
        /\ ReturnedWithoutSummarizing(w) =>
               MessagesSinceLastSummary < SUMMARIZATION_THRESHOLD

TooLongError == Raised("ValueError", "ERROR_MSG_TOO_LONG")

\* the step in which worker w starts a process_user_message call
CallStarts(w) == pc[w] = "idle" /\ calls_left' = calls_left - 1

\* C2: a call is rejected with ERROR_MSG_TOO_LONG exactly when the estimate
\* of the user message exceeds the model's max_tokens, and the rejection
\* changes nothing: no message stored, no model call, summary untouched.
C2_TooLongRejectedUnchanged ==
    [][\A w \in Workers :
          CallStarts(w) =>
              /\ (result'[w] = TooLongError) <=>
                     (count_tokens(req'[w].user_message, req'[w].model)
                          > get_model_config(req'[w].model).max_tokens)
              /\ (result'[w] = TooLongError) =>
                     /\ UNCHANGED <<messages, summaries, context_manager, pc>>
                     /\ req'[w].response = None
                     /\ req'[w].user_msg = 0]_vars

\* a call was rejected as too long on a thread that already holds messages
C2_RejectedTooLong ==
    \E w \in Workers :
        /\ result[w] = TooLongError
        /\ pc[w] = "idle"
        /\ messages # <<>>

\* C5: with a current summary, the list handed to generate_response is the
\* system prompt entry, one assistant block with the summary sliced to the
\* model's preferred size, the capped recent messages, the new user message.
C5_PromptHoldsSlicedSummary ==
    \A w \in Workers :
        (pc[w] = "generate" /\ req[w].last_summary # None) =>
            LET limited == LastN(req[w].recent_messages,
                                 message_limits(get_summary_size_for_model(req[w].model)))
                sliced == get_summary_for_model(req[w].last_summary[1].summary_data,
                                                req[w].model)
            IN  req[w].messages_for_llm =
                    <<SystemEntry(system_prompt_to_use(system_prompt, req[w].model)),
                      SummaryBlock(sliced)>>
                    \o [i \in 1..Len(limited) |-> HistoryEntry(limited[i])]
                    \o <<CurrentEntry(req[w].user_message)>>

\* context_window - reserve_tokens - system_prompt_tokens of the chat request
ChatAvailable(w) ==
    get_model_config(req[w].model).context_window - GENERATE_DEFAULT_MAX_TOKENS
    - (IF system_prompt # 0 THEN count_tokens(system_prompt, req[w].model) ELSE 0)

\* C6: when the system prompt leaves no budget, generate_response fails with
\* the error naming the system prompt and the completion collaborator is not
\* called.
C6_NoBudgetFailsFast ==
    \A w \in Workers :
        (req[w].response # None /\ ChatAvailable(w) <= 0) =>
            /\ req[w].response[1].payload = None
            /\ req[w].response[1].raised = "System prompt too large for context window"

\* the call of w went through _trigger_summarization and is over
SummarizingCallOver(w) == pc[w] = "idle" /\ req[w].summarize

\* C7: whatever happens inside the triggered summarization, the call returns
\* the agent response and its user and agent messages stay stored.
C7_SummarizationFailureSwallowed ==
    \A w \in Workers :
        SummarizingCallOver(w) =>
            /\ result[w] = Returned
            /\ \E i \in DOMAIN messages :
                   /\ messages[i].id = req[w].user_msg
                   /\ messages[i].role = "user"
                   /\ messages[i].content = req[w].user_message
            /\ \E i \in DOMAIN messages :
                   /\ messages[i].id = req[w].agent_msg
                   /\ messages[i].role = "agent"
                   /\ messages[i].content = req[w].response[1].text

\* a call whose summarization raised, and that is over
C7_SummarizationRaised ==
    \E w \in Workers :
        /\ SummarizingCallOver(w)
        /\ req[w].summarized # None
        /\ req[w].summarized[1].raised # "none"

\* C9: every generate_response attempt has a ContextWindowManager of its
\* own, new at the attempt: a manager never holds the usage of two attempts.
C9_BudgetPerAttempt ==
    \A w \in Workers :
        context_manager[w] # None =>
            Len(context_manager[w][1].token_history) <= 1

(***************************************************************************)
(* Property of the summary upsert under two workers (Spec)                 *)
(***************************************************************************)
\* C8: under any interleaving of summary upserts the thread has at most one
\* stored summary.
C8_AtMostOneSummary == Len(summaries) <= 1

(***************************************************************************)
(* AgentWorkflowEngine (app/agents/agent_workflow.py)                      *)
(*                                                                         *)
(* Specification SpecWorkflow: execute_workflow calls, one after another,  *)
(* on one engine (one LLMService, so one context_manager).                 *)
(***************************************************************************)
\* execute_workflow calls that may start
MaxRuns == 3

\* word counts of user_input
UserInputs == {5, 60, 4000}

\* A coordinator output: its lines as split("\n") gives them, whether it has
\* a "[" and a "]", what json.loads makes of the text from the first "[" to
\* the last "]" ("list" with the array, or "invalid"), and its words.
TwoLineText ==
    [lines |-> <<"Do X", "Do Y">>, bracket |-> "none", array |-> <<>>, words |-> 4]

JsonArrayText ==
    [lines |-> <<"Tasks:", "[\"Do X\", \"Do Y\"]">>, bracket |-> "list",
     array |-> <<"Do X", "Do Y">>, words |-> 12]

BrokenArrayText ==
    [lines |-> <<"[Do X", "", "  Do Y]  ", "   ">>, bracket |-> "invalid",
     array |-> <<>>, words |-> 40]

BlankText ==
    [lines |-> <<"   ">>, bracket |-> "none", array |-> <<>>, words |-> 0]

\* what the completion collaborator does with the coordinator's request
CoordinatorReplies ==
    {[ok |-> FALSE, text |-> 0, body |-> BlankText],
     [ok |-> TRUE, text |-> TwoLineText.words, body |-> TwoLineText],
     [ok |-> TRUE, text |-> JsonArrayText.words, body |-> JsonArrayText],
     [ok |-> TRUE, text |-> BrokenArrayText.words, body |-> BrokenArrayText]}

\* AVAILABLE_AGENTS[AgentRole.COORDINATOR]: model, max_tokens and the words
\* of system_prompt
COORDINATOR_AGENT ==
    [model |-> "openai/gpt-4-turbo-preview", max_tokens |-> 500,
     system_prompt |-> 46]

\* the words of the coordinator's prompt around user_input
COORDINATOR_PROMPT_WORDS == 23

\* MultiAgentWorkflowState as execute_workflow creates it
InitialWorkflowState(user_input) ==
    [user_input |-> user_input, coordinator_task |-> None,
     task_breakdown |-> <<>>, specialist_outputs |-> <<>>,
     evaluator_feedback |-> None, final_response |-> None,
     workflow_history |-> <<>>]

\* str.strip() on the lines used here
strip(line) ==
    CASE line = "  Do Y]  " -> "Do Y]"
      [] line = "   " -> ""
      [] OTHER -> line

\* [line.strip() for line in response.split("\n") if line.strip()]
StrippedLines(text) ==
    LET kept(line) == strip(line) # ""
        lines == SelectSeq(text.lines, kept)
    IN  [i \in 1..Len(lines) |-> strip(lines[i])]

\* _extract_tasks on what generate_response returned, the tuple
\* (response_text, token_info).  `"[" in response` compares "[" with the two
\* elements, and "]" cannot equal one of them as well, so the JSON branch is
\* not taken; response.split is then looked up on the tuple.
\* On a str: the array of the bracketed text when it parses, else the
\* stripped lines that are not blank, else the response itself.
extract_tasks(response) ==
    IF response.type = "tuple"
    THEN [raised |-> "AttributeError", tasks |-> <<>>]
    ELSE IF response.text.bracket = "list"
    THEN [raised |-> "none", tasks |-> response.text.array]
    ELSE [raised |-> "none",
          tasks |-> IF StrippedLines(response.text) # <<>>
                    THEN StrippedLines(response.text) ELSE <<response.text>>]

\* what a generate_response call adds to the requests posted: nothing when
\* it raised before posting, else the request with what it was built from
Posted(agent, idx, user_input, task, payload) ==
    IF payload = None THEN <<>>
    ELSE <<[agent |-> agent, idx |-> idx, user_input |-> user_input,
            task |-> task, payload |-> payload[1]]>>

\* execute_workflow, lines 233-239: the initial state; the coordinator node
\* is entered next.
ExecuteWorkflow(user_input) ==
    /\ wf_pc = "idle"
    /\ wf_runs < MaxRuns
    /\ wf_runs' = wf_runs + 1
    /\ wf_state' = Some(InitialWorkflowState(user_input))
    /\ wf_error' = "none"
    /\ wf_pc' = "coordinator"
    /\ wf_posted' = <<>>
    /\ UNCHANGED <<wf_manager, cleanerVars, callVars, threadVars>>

\* _coordinator_node: the model call, _extract_tasks, then the state update.
\* An exception leaves execute_workflow; wf_state keeps the state object as
\* it was when the exception was raised.
CoordinatorNode(reply) ==
    /\ wf_pc = "coordinator"
    /\ \E response \in {generate_response(
                            wf_manager, COORDINATOR_AGENT.model,
                            COORDINATOR_AGENT.system_prompt,
                            <<CurrentEntry(COORDINATOR_PROMPT_WORDS
                                           + wf_state[1].user_input)>>,
                            COORDINATOR_AGENT.max_tokens,
                            GENERATE_DEFAULT_MAX_MESSAGE_LENGTH, reply)} :
          /\ wf_manager' = response.manager
          /\ wf_posted' = wf_posted
                           \o Posted("coordinator", 0, wf_state[1].user_input, "",
                                     response.payload)
          /\ IF response.raised # "none"
             THEN /\ wf_error' = response.raised
                  /\ wf_pc' = "idle"
                  /\ UNCHANGED wf_state
             ELSE \E extracted \in {extract_tasks([type |-> "tuple",
                                                   text |-> reply.body])} :
                     IF extracted.raised # "none"
                     THEN /\ wf_error' = extracted.raised
                          /\ wf_pc' = "idle"
                          /\ UNCHANGED wf_state
                     ELSE /\ wf_state' =
                                 Some([wf_state[1] EXCEPT
                                         !.coordinator_task = Some(response.text),
                                         !.task_breakdown = extracted.tasks,
                                         !.workflow_history =
                                             Append(@, [agent |-> "coordinator",
                                                        output |-> response.text])])
                          /\ wf_pc' = "specialist"
                          /\ UNCHANGED wf_error
    /\ UNCHANGED <<wf_runs, cleanerVars, callVars, threadVars>>

InitWorkflow == CleanerIdle /\ CallIdle /\ ThreadIdle /\ WorkflowIdle

NextWorkflow ==
    \/ \E user_input \in UserInputs : ExecuteWorkflow(user_input)
    \/ \E reply \in CoordinatorReplies : CoordinatorNode(reply)

SpecWorkflow == InitWorkflow /\ [][NextWorkflow]_vars

\* what generate_response raises when the model call does not succeed
ModelCallErrors ==
    {"Unknown model", "Token validation failed", "Error generating response"}

\* an execute_workflow call is over and none of its model calls failed
WorkflowOverModelCallsSucceeded ==
    /\ wf_runs > 0
    /\ wf_pc = "idle"
    /\ wf_error \notin ModelCallErrors

\* C10: when every model call succeeds, execute_workflow ends with the four
\* stage records coordinator, specialist, evaluator, synthesizer in its
\* workflow history and with final_response set.
C10_WorkflowRunsFourStages ==
    WorkflowOverModelCallsSucceeded =>
        /\ wf_error = "none"
        /\ [i \in 1..Len(wf_state[1].workflow_history) |->
               wf_state[1].workflow_history[i].agent]
               = <<"coordinator", "specialist", "evaluator", "synthesizer">>
        /\ wf_state[1].final_response # None

(***************************************************************************)
(* Properties of the request posted to the completion collaborator         *)
(***************************************************************************)
\* the estimates of the system-role entries of the request posted by w
PostedSystemEstimates(w) ==
    LET posted == req[w].response[1].payload[1].messages
        system(m) == m.role = "system"
    IN  {count_tokens(m.content, req[w].model) : m \in Range(SelectSeq(posted, system))}

\* C11: no system prompt content posted by process_user_message is estimated
\* above 250 tokens: a longer thread prompt goes out only as its truncated
\* prefix, never as an untruncated copy.
C11_PostedSystemPromptCapped ==
    \A w \in Workers :
        (req[w].response # None /\ req[w].response[1].payload # None) =>
            \A e \in PostedSystemEstimates(w) : e <= MAX_SYSTEM_PROMPT_TOKENS


(* summarize_conversation taken on its own *)
SummarizeContents == {5, 800}

SummarizeMessages ==
    {<<>>}
    \cup {<<[role |-> "user", content |-> a]>> : a \in SummarizeContents}
    \cup {<<[role |-> "user", content |-> a], [role |-> "assistant", content |-> b]>> :
              a \in SummarizeContents, b \in SummarizeContents}

PreviousSummaries == {None, Some(empty_summary), Some(FullSummary)}

SummarizeInputs ==
    [op : {"summarize_conversation"}, messages : SummarizeMessages,
     previous_summary : PreviousSummaries, reply : SummarizerReplies]

SummarizeConversationCall ==
    /\ call # None
    /\ call[1].op = "summarize_conversation"
    /\ ret = None
    /\ \E out \in {summarize_conversation(None, call[1].messages,
                                          call[1].previous_summary, call[1].reply)} :
           ret' = Some([raised |-> out.raised, summary |-> out.summary,
                        posted |-> out.payload # None])
    /\ UNCHANGED <<call, manager, cleanerVars, threadVars, workflowVars>>

InitSummarize ==
    /\ call \in {Some(a) : a \in SummarizeInputs}
    /\ ret = None
    /\ manager = None
    /\ CleanerIdle
    /\ ThreadIdle
    /\ WorkflowIdle

NextSummarize == SummarizeConversationCall

SpecSummarize == InitSummarize /\ [][NextSummarize]_vars

\* a summary with all seven keys, six list categories and a mapping of entities
WellFormedSummary(s) ==
    /\ SummaryKeys \subseteq DOMAIN s
    /\ \A k \in SummaryKeys :
           s[k].type = (IF k = "entities" THEN "dict" ELSE "list")

\* C12: whatever text the summarization model returned for a non-empty message
\* list, summarize_conversation returns, without raising, a summary that has
\* all seven keys with the six list categories lists and entities a mapping;
\* a text that is not JSON gives the summary with every category empty.
C12_AnyTextGivesWellFormedSummary ==
    (/\ ret # None
     /\ call[1].op = "summarize_conversation"
     /\ call[1].messages # <<>>
     /\ call[1].reply.ok) =>
        /\ ret[1].raised = "none"
        /\ ret[1].summary # None
        /\ WellFormedSummary(ret[1].summary[1])
        /\ call[1].reply.json = "invalid" => ret[1].summary[1] = empty_summary


(***************************************************************************)
(* merge_summaries and the two slice_summary functions taken on their own  *)
(***************************************************************************)
\* sorted() on strings compares code points; the texts used here, in that order
LexOrder ==
    <<"Zero downtime", "misc", "no downtime", "prefers short answers",
      "ship on friday", "uses postgres", "uses redis", "which region">>

StrRank(t) == CHOOSE i \in 1..Len(LexOrder) : LexOrder[i] = t

\* sorted(list(items)) for a set of strings
sorted(items) ==
    [i \in 1..Cardinality(items) |->
        CHOOSE t \in items :
            Cardinality({u \in items : StrRank(u) < StrRank(t)}) = i - 1]

\* dict.get(field, default) on a summary, as the items of a list category
GetList(summary, field) ==
    IF field \in DOMAIN summary THEN summary[field].items ELSE <<>>

\* dict.get("entities", {}) on a summary, as the entries of the mapping
GetEntities(summary) ==
    IF "entities" \in DOMAIN summary THEN summary["entities"].entries ELSE <<>>

EntityKeys(entries) == {entries[i][1] : i \in 1..Len(entries)}

EntityValue(entries, key) ==
    entries[CHOOSE i \in 1..Len(entries) : entries[i][1] = key][2]

\* {**a, **b}: a's keys in a's order with b's value where b has the key, then
\* the keys only b has, in b's order
DictUnpackMerge(a, b) ==
    LET only_b(e) == e[1] \notin EntityKeys(a)
    IN  [i \in 1..Len(a) |->
            IF a[i][1] \in EntityKeys(b)
            THEN <<a[i][1], EntityValue(b, a[i][1])>> ELSE a[i]]
        \o SelectSeq(b, only_b)

MERGED_LIST_FIELDS ==
    {"core_facts", "user_preferences", "decisions_made", "constraints",
     "open_questions"}

\* a merge that concatenates the two lists instead of sorting their union
MergeListByConcatenation(previous, new_items, field) ==
    JList(GetList(previous, field) \o GetList(new_items, field))

\* lines 191-195: one list category of the merged summary
MergeList(previous, new_items, field) ==
    JList(sorted(Range(GetList(previous, field)) \cup Range(GetList(new_items, field))))

\* SummarySlicingEngine.merge_summaries
merge_summaries(previous, new_items) ==
    [k \in MERGED_LIST_FIELDS \cup {"entities"} |->
        IF k = "entities"
        THEN JDict(DictUnpackMerge(GetEntities(previous), GetEntities(new_items)))
        ELSE MergeList(previous, new_items, k)]

\* SummarizationService.slice_summary
service_slice_summary(summary, summary_type) ==
    LET get(k) == JList(GetList(summary, k))
    IN  IF summary_type = "small"
        THEN [k \in {"core_facts", "user_preferences", "constraints"} |-> get(k)]
        ELSE IF summary_type = "medium"
        THEN [k \in {"core_facts", "user_preferences", "decisions_made",
                     "open_questions", "constraints", "unlabeled"} |-> get(k)]
        ELSE summary

SlicerFacts ==
    {<<>>, <<"uses postgres">>, <<"uses redis", "uses postgres">>,
     <<"uses redis", "Zero downtime">>}

SlicerUnlabeled == {<<>>, <<"misc">>}

SlicerEntities ==
    {<<>>, <<(<<"Acme", "the client">>)>>,
     <<(<<"Bolt", "the database">>), (<<"Acme", "a vendor">>)>>}

\* valid summaries: all seven keys, lists of strings, a mapping of entities
SlicerSummaries ==
    {[k \in SummaryKeys |->
         CASE k = "core_facts" -> JList(f)
           [] k = "unlabeled" -> JList(u)
           [] k = "entities" -> JDict(e)
           [] OTHER -> FullSummary[k]] :
        f \in SlicerFacts, u \in SlicerUnlabeled, e \in SlicerEntities}

SummarySizes == {"small", "medium", "large"}

SlicerInputs ==
    [op : {"merge_summaries"}, previous : SlicerSummaries, new_items : SlicerSummaries]
    \cup [op : {"slice_summary", "service_slice_summary"},
          summary : SlicerSummaries, summary_type : SummarySizes]
    \cup [op : {"get_summary_for_model"}, summary : SlicerSummaries, model : ModelName]

MergeSummaries ==
    /\ call # None /\ ret = None
    /\ call[1].op = "merge_summaries"
    /\ ret' = Some(merge_summaries(call[1].previous, call[1].new_items))
    /\ UNCHANGED <<call, manager, cleanerVars, threadVars, workflowVars>>

SliceSummary ==
    /\ call # None /\ ret = None
    /\ call[1].op = "slice_summary"
    /\ ret' = Some(slice_summary(call[1].summary, call[1].summary_type))
    /\ UNCHANGED <<call, manager, cleanerVars, threadVars, workflowVars>>

ServiceSliceSummary ==
    /\ call # None /\ ret = None
    /\ call[1].op = "service_slice_summary"
    /\ ret' = Some(service_slice_summary(call[1].summary, call[1].summary_type))
    /\ UNCHANGED <<call, manager, cleanerVars, threadVars, workflowVars>>

GetSummaryForModel ==
    /\ call # None /\ ret = None
    /\ call[1].op = "get_summary_for_model"
    /\ ret' = Some(get_summary_for_model(call[1].summary, call[1].model))
    /\ UNCHANGED <<call, manager, cleanerVars, threadVars, workflowVars>>

InitSlicer ==
    /\ call \in {Some(a) : a \in SlicerInputs}
    /\ ret = None
    /\ manager = None
    /\ CleanerIdle
    /\ ThreadIdle
    /\ WorkflowIdle

NextSlicer ==
    \/ MergeSummaries
    \/ SliceSummary
    \/ ServiceSliceSummary
    \/ GetSummaryForModel

SpecSlicer == InitSlicer /\ [][NextSlicer]_vars

Returns(op) == call # None /\ ret # None /\ call[1].op = op

\* C13: merging two valid summaries gives a summary with all seven category
\* keys that holds every unlabeled item of both, and slicing a valid summary
\* to the large class returns every category of it unchanged.
C13_MergeAndLargeSliceLoseNothing ==
    /\ Returns("merge_summaries") =>
           /\ SummaryKeys \subseteq DOMAIN ret[1]
           /\ Range(call[1].previous["unlabeled"].items)
                  \cup Range(call[1].new_items["unlabeled"].items)
              \subseteq Range(ret[1]["unlabeled"].items)
    /\ (Returns("slice_summary") /\ call[1].summary_type = "large") =>
           ret[1] = call[1].summary


\* the categories the specification lists for each size class
SizeClassCategories(size) ==
    CASE size = "small" -> {"core_facts", "user_preferences"}
      [] size = "medium" -> {"core_facts", "user_preferences", "decisions_made",
                             "constraints", "open_questions"}
      [] size = "large" -> SummaryKeys

Restricted(summary, keys) == [k \in keys \cap DOMAIN summary |-> summary[k]]

\* C14: slicing returns exactly the categories of the size class that the
\* summary has, with their values: two for small, five for medium, all seven
\* for large; and the summary for a model is the slice of its preferred size.
C14_SliceReturnsSizeClass ==
    /\ (Returns("slice_summary") \/ Returns("service_slice_summary")) =>
           ret[1] = Restricted(call[1].summary,
                               SizeClassCategories(call[1].summary_type))
    /\ Returns("get_summary_for_model") =>
           ret[1] = slice_summary(call[1].summary,
                                  get_summary_size_for_model(call[1].model))

\* C15: a merge sets each of the five list categories to the duplicate-free,
\* lexicographically sorted union of that category in both summaries, and
\* sets entities to the first mapping overwritten key by key with the second:
\* its keys are the union of both key sets and the second's value wins.
C15_MergeIsSortedUnionRightBiased ==
    Returns("merge_summaries") =>
        LET A == call[1].previous
            B == call[1].new_items
            M == ret[1]
            a == A["entities"].entries
            b == B["entities"].entries
            m == M["entities"].entries
        IN  /\ \A k \in MERGED_LIST_FIELDS :
                   /\ Range(M[k].items) = Range(A[k].items) \cup Range(B[k].items)
                   /\ \A i, j \in 1..Len(M[k].items) :
                          i < j => StrRank(M[k].items[i]) < StrRank(M[k].items[j])
            /\ EntityKeys(m) = EntityKeys(a) \cup EntityKeys(b)
            /\ Len(m) = Cardinality(EntityKeys(m))
            /\ \A key \in EntityKeys(m) :
                   EntityValue(m, key) = IF key \in EntityKeys(b)
                                         THEN EntityValue(b, key)
                                         ELSE EntityValue(a, key)

\* a merge of lists that overlap and are not in sorted order when concatenated,
\* with an entity both summaries describe differently
C15_MergedOverlapping ==
    /\ Returns("merge_summaries")
    /\ call[1].previous["core_facts"].items = <<"uses redis", "uses postgres">>
    /\ call[1].new_items["core_facts"].items = <<"uses redis", "Zero downtime">>
    /\ call[1].previous["entities"].entries = <<(<<"Acme", "the client">>)>>
    /\ call[1].new_items["entities"].entries
           = <<(<<"Bolt", "the database">>), (<<"Acme", "a vendor">>)>>


(***************************************************************************)
(* Message append (app/crud/thread_crud.py, add_message_to_thread)         *)
(***************************************************************************)
MaxAppends == 3

\* values a caller can pass as content: a str of so many words, or a value of
\* another type, with the number of words str() would make of it
ContentValues ==
    {[type |-> "str", words |-> 5], [type |-> "str", words |-> 0],
     [type |-> "tuple", words |-> 7], [type |-> "dict", words |-> 3],
     [type |-> "NoneType", words |-> 1]}

\* an append that accepts any content
AnyContentIsStr(content) == TRUE

\* isinstance(content, str)
IsInstanceStr(content) == content.type = "str"

\* add_message_to_thread: what it raises and the thread's messages afterwards
add_message_to_thread(role, content, model_used) ==
    IF ~IsInstanceStr(content)
    THEN [raised |-> "ValueError", reason |-> "ERROR_INVALID_MESSAGE_CONTENT",
          messages |-> messages]
    ELSE [raised |-> "none", reason |-> "",
          messages |-> Append(messages, NewMessage(role, content.words, model_used))]

AddMessageToThread(role, content) ==
    /\ Len(messages) < MaxAppends
    /\ \E out \in {add_message_to_thread(role, content, "none")} :
           /\ messages' = out.messages
           /\ now' = IF out.raised = "none" THEN now + 1 ELSE now
           /\ ret' = Some([raised |-> out.raised, reason |-> out.reason])
    /\ call' = Some([op |-> "add_message_to_thread", role |-> role, content |-> content])
    /\ UNCHANGED <<system_prompt, summaries, pc, req, result, context_manager,
                   calls_left, manager, cleanerVars, workflowVars>>

InitAppend ==
    /\ CleanerIdle
    /\ CallIdle
    /\ ThreadIdle
    /\ WorkflowIdle

NextAppend ==
    \E role \in {"user", "agent"}, content \in ContentValues :
        AddMessageToThread(role, content)

SpecAppend == InitAppend /\ [][NextAppend]_vars

\* C16: an append whose content is not a string fails with the
\* ERROR_INVALID_MESSAGE_CONTENT error and leaves the thread's messages as they
\* were: nothing is stored, in particular no string made of the content.
C16_NonStringAppendRejected ==
    [][(/\ call' # None
        /\ call'[1].op = "add_message_to_thread"
        /\ call'[1].content.type # "str") =>
           /\ messages' = messages
           /\ ret'[1].raised = "ValueError"
           /\ ret'[1].reason = "ERROR_INVALID_MESSAGE_CONTENT"]_vars

\* a tuple was refused by a thread that already holds a message
C16_TupleRefused ==
    /\ call # None /\ ret # None
    /\ call[1].op = "add_message_to_thread"
    /\ call[1].content.type = "tuple"
    /\ ret[1].reason = "ERROR_INVALID_MESSAGE_CONTENT"
    /\ Len(messages) >= 1


\* the task list the fallback chain gives for a coordinator output
FallbackChain(text) ==
    LET nonempty(line) == strip(line) # ""
        lines == SelectSeq(text.lines, nonempty)
    IN  IF text.bracket = "list" THEN text.array
        ELSE IF lines # <<>> THEN [i \in 1..Len(lines) |-> strip(lines[i])]
        ELSE <<text>>

\* C17: when the coordinator's model call returns a text, the coordinator
\* stage sets the task list to what the fallback chain gives for that text:
\* the bracketed JSON array if it parses, else the non-empty lines, else the
\* text as the only item; the lines "Do X" and "Do Y" give those two tasks.
C17_TasksByFallbackChain ==
    [][\A reply \in CoordinatorReplies :
          (reply.ok /\ CoordinatorNode(reply) /\ wf_error' \notin ModelCallErrors) =>
              /\ wf_state'[1].task_breakdown = FallbackChain(reply.body)
              /\ reply.body = TwoLineText =>
                     wf_state'[1].task_breakdown = <<"Do X", "Do Y">>]_vars


(* Order and the no-room case of trim_messages_to_context (SpecTrim) *)
\* out is in taken from the strictly increasing positions pos
TakenAt(out, in, pos) ==
    /\ \A j \in 1..Len(out) : out[j] = in[pos[j]]
    /\ \A j \in 1..(Len(out) - 1) : pos[j] < pos[j + 1]

\* C18: trim_messages_to_context never reorders: the retained messages are
\* input messages, unmodified, in the relative order they have in the input.
C18_TrimKeepsOrder ==
    cleaner_out # None =>
        \E pos \in [1..Len(cleaner_out[1].messages) -> 1..Len(cleaner_in[1].messages)] :
            TakenAt(cleaner_out[1].messages, cleaner_in[1].messages, pos)

\* a call that kept two different messages and removed another
C18_KeptTwoDifferent ==
    /\ TrimReturned
    /\ cleaner_out[1].messages_removed > 0
    /\ Len(cleaner_out[1].messages) = 2
    /\ cleaner_out[1].messages[1] # cleaner_out[1].messages[2]

\* C19: when context_window - reserve_tokens - system prompt tokens is zero or
\* less, trim_messages_to_context returns no message and an error result
\* whose reason is that the system prompt is too large, whatever the input.
C19_NoRoomGivesError ==
    (cleaner_out # None /\ TrimAvailable <= 0) =>
        /\ cleaner_out[1].messages = <<>>
        /\ cleaner_out[1].status = "error"
        /\ cleaner_out[1].reason = "System prompt too large for context window"

\* a call with messages whose budget for them was exactly zero
C19_ZeroBudgetCall ==
    /\ cleaner_out # None
    /\ TrimAvailable = 0
    /\ Len(cleaner_in[1].messages) = MaxLen


(***************************************************************************)
(* One ContextWindowManager under add_tokens and reset                     *)
(***************************************************************************)
MaxHistory == 3

\* word counts of the texts added
BudgetTexts == {0, 5, 800, 3000}

BudgetSources == {"message", "response"}

BudgetModels == {"openai/gpt-3.5-turbo", "anthropic/claude-3-haiku"}

BudgetBuffers == {0, MANAGER_BUFFER, VALIDATE_DEFAULT_BUFFER}

\* ContextWindowManager.add_tokens: the value it returns
add_tokens_returns(mgr, text) == count_tokens(text, mgr.model_name)

\* ContextWindowManager.reset: the manager after the call
reset(mgr) == [mgr EXCEPT !.used_tokens = 0, !.token_history = <<>>]

AddTokens(text, source) ==
    /\ manager # None
    /\ Len(manager[1].token_history) < MaxHistory
    /\ manager' = Some(add_tokens(manager[1], text, source))
    /\ call' = Some([op |-> "add_tokens", text |-> text, source |-> source])
    /\ ret' = Some(add_tokens_returns(manager[1], text))
    /\ UNCHANGED <<cleanerVars, threadVars, workflowVars>>

Reset ==
    /\ manager # None
    /\ manager' = Some(reset(manager[1]))
    /\ call' = Some([op |-> "reset"])
    /\ ret' = None
    /\ UNCHANGED <<cleanerVars, threadVars, workflowVars>>

\* a get_available_tokens without the floor at zero
get_available_tokens_unclamped(mgr) ==
    get_model_config(mgr.model_name).context_window - mgr.used_tokens - mgr.buffer

\* ContextWindowManager.get_available_tokens
get_available_tokens(mgr) ==
    Max(0, (get_model_config(mgr.model_name).context_window - mgr.used_tokens)
           - mgr.buffer)

\* ContextWindowManager.can_fit
can_fit(mgr, text) ==
    count_tokens(text, mgr.model_name) <= get_available_tokens(mgr)

GetAvailableTokens ==
    /\ manager # None
    /\ call' = Some([op |-> "get_available_tokens"])
    /\ ret' = Some(get_available_tokens(manager[1]))
    /\ UNCHANGED <<manager, cleanerVars, threadVars, workflowVars>>

CanFit(text) ==
    /\ manager # None
    /\ call' = Some([op |-> "can_fit", text |-> text])
    /\ ret' = Some(can_fit(manager[1], text))
    /\ UNCHANGED <<manager, cleanerVars, threadVars, workflowVars>>

InitBudget ==
    /\ manager \in {Some(NewContextWindowManager(m, b)) :
                        m \in BudgetModels, b \in BudgetBuffers}
    /\ call = None
    /\ ret = None
    /\ CleanerIdle
    /\ ThreadIdle
    /\ WorkflowIdle

NextBudget ==
    \/ \E text \in BudgetTexts, source \in BudgetSources : AddTokens(text, source)
    \/ Reset
    \/ GetAvailableTokens
    \/ \E text \in BudgetTexts : CanFit(text)

SpecBudget == InitBudget /\ [][NextBudget]_vars

\* the sum of the token deltas of the first n log entries
DeltaSum(history, n) == SumSeq([i \in 1..n |-> history[i].tokens])

\* used_tokens and every running total agree with the deltas logged since the
\* last reset
BudgetLogConsistent ==
    manager # None =>
        LET history == manager[1].token_history
        IN  /\ manager[1].used_tokens = DeltaSum(history, Len(history))
            /\ \A i \in 1..Len(history) :
                   history[i].cumulative = DeltaSum(history, i)

\* one step of the manager: an add appends one entry, holding the estimate of
\* the text, and returns that delta; a reset empties the log; nothing else
\* touches the log (a query leaves the manager alone), and model and buffer
\* stay as they are
BudgetStep ==
    manager # None =>
        LET before == manager[1].token_history
            after == manager'[1].token_history
        IN  /\ manager' # None
            /\ manager'[1].model_name = manager[1].model_name
            /\ manager'[1].buffer = manager[1].buffer
            /\ \/ /\ call'[1].op = "add_tokens"
                  /\ Len(after) = Len(before) + 1
                  /\ SubSeq(after, 1, Len(before)) = before
                  /\ after[Len(after)].tokens
                         = count_tokens(call'[1].text, manager[1].model_name)
                  /\ after[Len(after)].source = call'[1].source
                  /\ ret' = Some(after[Len(after)].tokens)
               \/ /\ call'[1].op = "reset"
                  /\ after = <<>>
                  /\ manager'[1].used_tokens = 0
               \/ /\ call'[1].op \notin {"add_tokens", "reset"}
                  /\ manager' = manager

\* C20: after any sequence of add and reset on one manager, used_tokens is the
\* sum of the deltas logged since the last reset and each entry's running
\* total is the sum of the deltas up to it; add returns the delta it logged;
\* entries are only appended between resets; model and buffer never change.
C20_BudgetLogAccounting == []BudgetLogConsistent /\ [][BudgetStep]_vars

\* a full log whose deltas differ, the last add having just returned
C20_ThreeEntriesLogged ==
    /\ manager # None
    /\ call # None /\ call[1].op = "add_tokens"
    /\ Len(manager[1].token_history) = MaxHistory
    /\ manager[1].token_history[1].tokens > manager[1].token_history[2].tokens
    /\ manager[1].token_history[2].tokens > 0
    /\ manager[1].used_tokens > manager[1].token_history[MaxHistory].tokens


\* what is left of the manager's window after the tokens used and the buffer
WindowLeft ==
    get_model_config(manager[1].model_name).context_window
    - manager[1].used_tokens - manager[1].buffer

\* C21: for every registered model, buffer and used-token count, the available
\* tokens are max(0, context_window - used_tokens - buffer), and can_fit(text)
\* is true exactly when the estimate of text is at most the available tokens.
C21_AvailableAndCanFit ==
    /\ Returns("get_available_tokens") =>
           ret[1] = (IF WindowLeft > 0 THEN WindowLeft ELSE 0)
    /\ Returns("can_fit") =>
           (ret[1] <=> count_tokens(call[1].text, manager[1].model_name)
                           <= (IF WindowLeft > 0 THEN WindowLeft ELSE 0))

\* the empty text was found to fit a manager that had overrun its window
C21_EmptyTextFitsOverrun ==
    /\ Returns("can_fit")
    /\ WindowLeft < 0
    /\ call[1].text = 0
    /\ ret[1] = TRUE


(***************************************************************************)
(* filter_messages_by_length with both ceilings, applied once and again    *)
(***************************************************************************)
\* a filter that inserts each kept message in front of the ones kept before
filter_messages_inserting_in_front(msgs, max_message_length, max_char_length) ==
    LET too_long(m) ==
            \/ /\ max_char_length # None
               /\ max_char_length[1] # 0
               /\ m.chars > max_char_length[1]
            \/ count_tokens(m.content, FILTER_MODEL) > max_message_length
        keep(m) == ~too_long(m)
        filtered == SelectSeq(msgs, keep)
    IN  [messages |-> [i \in 1..Len(filtered) |-> filtered[Len(filtered) + 1 - i]],
         deleted_count |-> Len(msgs) - Len(filtered),
         remaining_count |-> Len(filtered)]

\* LLMService.filter_messages_by_length.  A message carries the words of its
\* content and len(content) as chars; max_char_length is None or Some(n), and
\* the character test is made only for a ceiling that is neither None nor 0.
filter_messages(msgs, max_message_length, max_char_length) ==
    LET too_long(m) ==
            \/ /\ max_char_length # None
               /\ max_char_length[1] # 0
               /\ m.chars > max_char_length[1]
            \/ count_tokens(m.content, FILTER_MODEL) > max_message_length
        keep(m) == ~too_long(m)
        filtered == SelectSeq(msgs, keep)
    IN  [messages |-> filtered,
         deleted_count |-> Len(msgs) - Len(filtered),
         remaining_count |-> Len(filtered)]

FilterContents ==
    {[role |-> "user", content |-> 10, chars |-> 60],
     [role |-> "agent", content |-> 10, chars |-> 80],
     [role |-> "user", content |-> 4000, chars |-> 24000],
     [role |-> "agent", content |-> 6000, chars |-> 36000]}

FilterTokenCeilings == {GENERATE_DEFAULT_MAX_MESSAGE_LENGTH, SUMMARIZE_MAX_MESSAGE_LENGTH}

FilterCharCeilings == {None, Some(0), Some(100), Some(30000)}

FilterInputs ==
    [op : {"filter_messages_by_length"},
     messages : SeqsUpTo(FilterContents, MaxLen),
     max_message_length : FilterTokenCeilings,
     max_char_length : FilterCharCeilings]

\* the filter applied to the input
FilterMessages ==
    /\ call # None
    /\ ret = None
    /\ ret' = Some([first |-> filter_messages(call[1].messages,
                                              call[1].max_message_length,
                                              call[1].max_char_length),
                    second |-> None])
    /\ UNCHANGED <<call, manager, cleanerVars, threadVars, workflowVars>>

\* the filter applied, with the same ceilings, to what it returned
FilterFiltered ==
    /\ ret # None
    /\ ret[1].second = None
    /\ ret' = Some([ret[1] EXCEPT
                       !.second = Some(filter_messages(ret[1].first.messages,
                                                       call[1].max_message_length,
                                                       call[1].max_char_length))])
    /\ UNCHANGED <<call, manager, cleanerVars, threadVars, workflowVars>>

InitFilter ==
    /\ call \in {Some(a) : a \in FilterInputs}
    /\ ret = None
    /\ manager = None
    /\ CleanerIdle
    /\ ThreadIdle
    /\ WorkflowIdle

NextFilter == FilterMessages \/ FilterFiltered

SpecFilter == InitFilter /\ [][NextFilter]_vars

\* C22: filter_messages_by_length is idempotent: with the ceilings fixed,
\* filtering the output of a filter returns the same list and deletes nothing;
\* the retained messages keep the order they have in the input.
C22_FilterIdempotent ==
    ret # None =>
        /\ \E pos \in [1..Len(ret[1].first.messages) -> 1..Len(call[1].messages)] :
               TakenAt(ret[1].first.messages, call[1].messages, pos)
        /\ ret[1].second # None =>
               /\ ret[1].second[1].messages = ret[1].first.messages
               /\ ret[1].second[1].deleted_count = 0

\* a list filtered twice, the first pass having deleted a message for its
\* characters and kept two different ones
C22_FilteredTwice ==
    /\ ret # None
    /\ ret[1].second # None
    /\ call[1].max_char_length = Some(100)
    /\ ret[1].first.deleted_count > 0
    /\ Len(ret[1].first.messages) = 2
    /\ ret[1].first.messages[1] # ret[1].first.messages[2]


\* C23: summarize_conversation called with an empty message list returns the
\* summary with all seven keys and every category empty, and posts nothing to
\* the completion collaborator, with or without a previous summary.
C23_NoMessagesGivesEmptySummary ==
    (Returns("summarize_conversation") /\ call[1].messages = <<>>) =>
        /\ ret[1].raised = "none"
        /\ ret[1].summary # None
        /\ DOMAIN ret[1].summary[1] = SummaryKeys
        /\ \A k \in SummaryKeys :
               /\ ret[1].summary[1][k].items = <<>>
               /\ ret[1].summary[1][k].entries = <<>>
               /\ ret[1].summary[1][k].type = (IF k = "entities" THEN "dict" ELSE "list")
        /\ ~ret[1].posted

\* the call returned for no messages and a previous summary that is not empty
C23_NoMessagesWithPrevious ==
    /\ Returns("summarize_conversation")
    /\ call[1].messages = <<>>
    /\ call[1].previous_summary = Some(FullSummary)
    /\ call[1].reply.ok


(***************************************************************************)
(* The specialist, evaluator and synthesizer nodes of AgentWorkflowEngine, *)
(* chained as execute_workflow chains them.  SpecStages enters the chain   *)
(* either at execute_workflow or, with a task list in the state, at the    *)
(* specialist node.                                                        *)
(***************************************************************************)
\* AVAILABLE_AGENTS[AgentRole.SPECIALIST] and [AgentRole.EVALUATOR]
SPECIALIST_AGENT ==
    [model |-> "mistralai/mistral-7b-instruct", max_tokens |-> 1500,
     system_prompt |-> 36]

EVALUATOR_AGENT ==
    [model |-> "openai/gpt-4-turbo-preview", max_tokens |-> 800,
     system_prompt |-> 46]

\* the arguments _synthesizer_node passes itself
SYNTHESIZER_CALL ==
    [model |-> "google/gemini-pro", max_tokens |-> 1500, system_prompt |-> 13]

\* the words of the three prompts around what is put into them
SPECIALIST_PROMPT_WORDS == 14
EVALUATOR_PROMPT_WORDS == 20
EVALUATOR_TASK_LABEL_WORDS == 2
SYNTHESIZER_PROMPT_WORDS == 17
SYNTHESIZER_KEY_WORDS == 1

\* the words str() makes of the token_info half of a response tuple
TOKEN_INFO_WORDS == 50

\* the words of a task of the task lists used here
TaskWords(task) == 2

\* the words str() makes of a response tuple (response_text, token_info)
ResponseWords(text) == text + TOKEN_INFO_WORDS

\* a pipeline that goes on to the next stage after a failed model call
ContinueAfterError(stage) ==
    CASE stage = "specialist" -> "evaluator"
      [] stage = "evaluator" -> "synthesizer"
      [] OTHER -> "idle"

\* lines 241-247: no stage call is guarded, so an exception raised in a stage
\* leaves execute_workflow
AfterStageError(stage) == "idle"

\* a specialist node that makes a call for the first task only
SpecialistFirstTaskOnly(state, replies, i, acc) ==
    IF state.task_breakdown = <<>> THEN acc
    ELSE LET Step(response) ==
                 [acc EXCEPT !.raised = response.raised,
                             !.manager = response.manager,
                             !.outputs = IF response.raised = "none"
                                         THEN <<[idx |-> 0, text |-> response.text]>>
                                         ELSE <<>>,
                             !.posted = Posted("specialist", 0, state.user_input,
                                               state.task_breakdown[1],
                                               response.payload)]
         IN  Step(generate_response(
                      acc.manager, SPECIALIST_AGENT.model,
                      SPECIALIST_AGENT.system_prompt,
                      <<CurrentEntry(SPECIALIST_PROMPT_WORDS + state.user_input
                                     + TaskWords(state.task_breakdown[1]))>>,
                      SPECIALIST_AGENT.max_tokens,
                      GENERATE_DEFAULT_MAX_MESSAGE_LENGTH, replies[1]))

\* The loop of _specialist_node from task i on.  acc holds the exception
\* raised, the service's manager, the local specialist_outputs and the
\* requests posted.
RECURSIVE SpecialistLoop(_, _, _, _)
SpecialistLoop(state, replies, i, acc) ==
    IF i > Len(state.task_breakdown) THEN acc
    ELSE LET task == state.task_breakdown[i]
             Step(response) ==
                 IF response.raised # "none"
                 THEN [acc EXCEPT !.raised = response.raised,
                                  !.manager = response.manager,
                                  !.posted = @ \o Posted("specialist", i - 1,
                                                         state.user_input, task,
                                                         response.payload)]
                 ELSE SpecialistLoop(
                          state, replies, i + 1,
                          [acc EXCEPT !.manager = response.manager,
                                      !.outputs = Append(@, [idx |-> i - 1,
                                                             text |-> response.text]),
                                      !.posted = @ \o Posted("specialist", i - 1,
                                                             state.user_input, task,
                                                             response.payload)])
         IN  Step(generate_response(
                      acc.manager, SPECIALIST_AGENT.model,
                      SPECIALIST_AGENT.system_prompt,
                      <<CurrentEntry(SPECIALIST_PROMPT_WORDS + state.user_input
                                     + TaskWords(task))>>,
                      SPECIALIST_AGENT.max_tokens,
                      GENERATE_DEFAULT_MAX_MESSAGE_LENGTH, replies[i]))

\* _specialist_node: one model call per task, then the state update
SpecialistNode(replies) ==
    /\ wf_pc = "specialist"
    /\ \E out \in {SpecialistLoop(wf_state[1], replies, 1,
                                  [raised |-> "none", manager |-> wf_manager,
                                   outputs |-> <<>>, posted |-> <<>>])} :
          /\ wf_manager' = out.manager
          /\ wf_posted' = wf_posted \o out.posted
          /\ IF out.raised # "none"
             THEN /\ wf_error' = out.raised
                  /\ wf_pc' = AfterStageError("specialist")
                  /\ UNCHANGED wf_state
             ELSE /\ wf_state' =
                         Some([wf_state[1] EXCEPT
                                 !.specialist_outputs = out.outputs,
                                 !.workflow_history =
                                     Append(@, [agent |-> "specialist",
                                                output |-> out.outputs])])
                  /\ wf_pc' = "evaluator"
                  /\ UNCHANGED wf_error
    /\ UNCHANGED <<wf_runs, cleanerVars, callVars, threadVars>>

\* the words of the lines made of specialist_outputs, label words per line
OutputsWords(outputs, label) ==
    SumSeq([i \in 1..Len(outputs) |-> label + ResponseWords(outputs[i].text)])

\* _evaluator_node
EvaluatorNode(reply) ==
    /\ wf_pc = "evaluator"
    /\ \E response \in {generate_response(
                            wf_manager, EVALUATOR_AGENT.model,
                            EVALUATOR_AGENT.system_prompt,
                            <<CurrentEntry(EVALUATOR_PROMPT_WORDS
                                           + wf_state[1].user_input
                                           + OutputsWords(wf_state[1].specialist_outputs,
                                                          EVALUATOR_TASK_LABEL_WORDS))>>,
                            EVALUATOR_AGENT.max_tokens,
                            GENERATE_DEFAULT_MAX_MESSAGE_LENGTH, reply)} :
          /\ wf_manager' = response.manager
          /\ wf_posted' = wf_posted
                           \o Posted("evaluator", 0, wf_state[1].user_input,
                                     wf_state[1].specialist_outputs, response.payload)
          /\ IF response.raised # "none"
             THEN /\ wf_error' = response.raised
                  /\ wf_pc' = AfterStageError("evaluator")
                  /\ UNCHANGED wf_state
             ELSE /\ wf_state' =
                         Some([wf_state[1] EXCEPT
                                 !.evaluator_feedback = Some(response.text),
                                 !.workflow_history =
                                     Append(@, [agent |-> "evaluator",
                                                output |-> response.text])])
                  /\ wf_pc' = "synthesizer"
                  /\ UNCHANGED wf_error
    /\ UNCHANGED <<wf_runs, cleanerVars, callVars, threadVars>>

\* _synthesizer_node; after it execute_workflow returns the state
SynthesizerNode(reply) ==
    /\ wf_pc = "synthesizer"
    /\ \E response \in {generate_response(
                            wf_manager, SYNTHESIZER_CALL.model,
                            SYNTHESIZER_CALL.system_prompt,
                            <<CurrentEntry(SYNTHESIZER_PROMPT_WORDS
                                           + wf_state[1].user_input
                                           + OutputsWords(wf_state[1].specialist_outputs,
                                                          SYNTHESIZER_KEY_WORDS)
                                           + ResponseWords(wf_state[1].evaluator_feedback[1]))>>,
                            SYNTHESIZER_CALL.max_tokens,
                            GENERATE_DEFAULT_MAX_MESSAGE_LENGTH, reply)} :
          /\ wf_manager' = response.manager
          /\ wf_posted' = wf_posted
                           \o Posted("synthesizer", 0, wf_state[1].user_input, "",
                                     response.payload)
          /\ IF response.raised # "none"
             THEN /\ wf_error' = response.raised
                  /\ wf_pc' = AfterStageError("synthesizer")
                  /\ UNCHANGED wf_state
             ELSE /\ wf_state' =
                         Some([wf_state[1] EXCEPT
                                 !.final_response = Some(response.text),
                                 !.workflow_history =
                                     Append(@, [agent |-> "synthesizer",
                                                output |-> response.text])])
                  /\ wf_pc' = "idle"
                  /\ UNCHANGED wf_error
    /\ UNCHANGED <<wf_runs, cleanerVars, callVars, threadVars>>

MaxTasks == 3

StageTasks == <<"Do X", "Do Y", "Do Z", "Do W">>

\* the task lists a state can hold when the specialist node is entered
TaskLists == {SubSeq(StageTasks, 1, n) : n \in 0..MaxTasks}

StageReplies == {[ok |-> FALSE, text |-> 0], [ok |-> TRUE, text |-> 20],
                 [ok |-> TRUE, text |-> 300]}

\* a state as a coordinator node leaves it, with the given task list
StateWithTasks(user_input, tasks) ==
    [InitialWorkflowState(user_input) EXCEPT
        !.coordinator_task = Some(TwoLineText.words),
        !.task_breakdown = tasks,
        !.workflow_history = <<[agent |-> "coordinator",
                                output |-> TwoLineText.words]>>]

InitStages ==
    /\ CleanerIdle
    /\ CallIdle
    /\ ThreadIdle
    /\ \/ WorkflowIdle
       \/ /\ wf_pc = "specialist"
          /\ wf_state \in {Some(StateWithTasks(u, t)) : u \in UserInputs, t \in TaskLists}
          /\ wf_error = "none"
          /\ wf_manager = None
          /\ wf_runs = MaxRuns
          /\ wf_posted = <<>>

NextStages ==
    \/ \E user_input \in UserInputs : ExecuteWorkflow(user_input)
    \/ \E reply \in CoordinatorReplies : CoordinatorNode(reply)
    \/ /\ wf_pc = "specialist"
       /\ \E replies \in [1..Len(wf_state[1].task_breakdown) -> StageReplies] :
              SpecialistNode(replies)
    \/ \E reply \in StageReplies : EvaluatorNode(reply)
    \/ \E reply \in StageReplies : SynthesizerNode(reply)

SpecStages == InitStages /\ [][NextStages]_vars


\* a stage's model call fails in this step
StageCallFails ==
    /\ wf_pc # "idle"
    /\ wf_error = "none"
    /\ wf_error' \in ModelCallErrors

\* the requests posted in this step
PostedInStep == SubSeq(wf_posted', Len(wf_posted) + 1, Len(wf_posted'))

\* C24: when a model call fails in a pipeline stage, the failure reaches the
\* caller of execute_workflow: the call is left, no record is appended to the
\* workflow history for the failed stage, the failed request is not posted a
\* second time, and no stage runs afterwards (only a new execute_workflow
\* call can follow).
C24_FailedCallPropagates ==
    [][/\ StageCallFails =>
              /\ wf_pc' = "idle"
              /\ wf_state' = wf_state
              /\ \A i, j \in 1..Len(PostedInStep) :
                     (/\ PostedInStep[i].agent = PostedInStep[j].agent
                      /\ PostedInStep[i].idx = PostedInStep[j].idx) => i = j
       /\ (wf_pc = "idle" /\ wf_error \in ModelCallErrors) =>
              /\ wf_runs' = wf_runs + 1
              /\ wf_pc' = "coordinator"
              /\ wf_posted' = <<>>]_vars

\* the evaluator's model call failed after the specialist stage had finished
\* two tasks: execute_workflow was left with the specialist's record the last
C24_EvaluatorCallFailed ==
    /\ wf_pc = "idle"
    /\ wf_error = "Error generating response"
    /\ wf_state # None
    /\ Len(wf_state[1].specialist_outputs) = 2
    /\ wf_state[1].workflow_history[Len(wf_state[1].workflow_history)].agent
           = "specialist"
    /\ wf_posted[Len(wf_posted)].agent = "evaluator"


\* the requests an agent posted, in the order it posted them
PostedBy(agent) == LET by(p) == p.agent = agent IN SelectSeq(wf_posted, by)

\* positions in wf_posted of the requests of an agent
PositionsOf(agent) == {i \in 1..Len(wf_posted) : wf_posted[i].agent = agent}

\* the specialist node has returned in the execute_workflow chain under way
SpecialistReturned ==
    /\ wf_state # None
    /\ \E i \in 1..Len(wf_state[1].workflow_history) :
           wf_state[1].workflow_history[i].agent = "specialist"

CurrentEntries(msgs) == LET current(m) == m.kind = "current" IN SelectSeq(msgs, current)

\* C26: a user message that passed the length precondition of
\* process_user_message is in the message list sent to the completion
\* collaborator: neither the filter nor the trim of generate_response drops it.
C26_UserMessageIsSent ==
    \A w \in Workers :
        (req[w].response # None /\ req[w].response[1].payload # None) =>
            \E i \in 1..Len(req[w].response[1].payload[1].messages) :
                /\ req[w].response[1].payload[1].messages[i].kind = "current"
                /\ req[w].response[1].payload[1].messages[i].content = req[w].user_message


\* C27: the message list assembled by process_user_message holds the new user
\* message exactly once, as its last element, and before it at most N earlier
\* messages of the conversation, N being 2, 5 or 10 for a model whose
\* preferred summary size is small, medium or large.
C27_NewMessageOnceAndLast ==
    \A w \in Workers :
        req[w].messages_for_llm # <<>> =>
            LET msgs == req[w].messages_for_llm
                history == {i \in 1..Len(msgs) : msgs[i].kind = "history"}
                limit == CASE get_summary_size_for_model(req[w].model) = "small" -> 2
                           [] get_summary_size_for_model(req[w].model) = "medium" -> 5
                           [] get_summary_size_for_model(req[w].model) = "large" -> 10
            IN  /\ msgs[Len(msgs)].kind = "current"
                /\ msgs[Len(msgs)].content = req[w].user_message
                /\ Len(CurrentEntries(msgs)) = 1
                /\ \A i \in history : msgs[i].ref # req[w].user_msg
                /\ Cardinality(history) <= limit


(* Properties of the stored summary and the stored messages *)
\* the ids of the messages handed to a summarization run that wrote a summary
HandedToSummarization ==
    UNION {summaries[i].handed : i \in DOMAIN summaries}

\* the ids of the messages a read of the messages since the last summary can
\* return
SinceLastSummary ==
    UNION {{m.id : m \in Range(get_messages_for_thread(ts))} : ts \in LastSummaryTimestamps}

\* C28: under any sequence and interleaving of process_user_message calls,
\* every stored message was in the list handed to the summarization run that
\* produced the current summary or an earlier one, or is still returned as a
\* message since the last summary.
C28_NoMessageLost ==
    \A i \in DOMAIN messages :
        messages[i].id \in HandedToSummarization \cup SinceLastSummary


\* the summarization attempt of w got no parsed summary: the model call
\* failed, or the model's text was not valid JSON
NotParsed(w) ==
    /\ req[w].summarized # None
    /\ \/ req[w].summarized[1].raised # "none"
       \/ req[w].summarized[1].json = "invalid"

\* a step of w that ends its summarization attempt
AttemptEnds(w) ==
    /\ pc[w] \in {"summarize", "upsert_query", "upsert_commit"}
    /\ pc'[w] = "idle"

\* C29: a threshold-triggered summarization attempt that produces no parsed
\* summary (failed model call, or output that is not valid JSON) leaves the
\* stored summary and its timestamp as they were before the attempt.
C29_FailedAttemptKeepsSummary ==
    [][\A w \in Workers :
          AttemptEnds(w) /\ NotParsed(w)' => summaries' = summaries]_vars


(* Property of a process_user_message call whose completion call failed *)
\* the completion collaborator was called in the current call of w and failed
CollaboratorFailed(w) ==
    /\ req[w].response # None
    /\ req[w].response[1].raised = "Error generating response"
    /\ req[w].response[1].payload # None

====
